---- MODULE Spec2Model ----
(***************************************************************************)
(* Model of the admira-etl ingestion pipeline: field validators, record    *)
(* normalizers, deduplicators, the quality reporter, the in-memory store   *)
(* and the IngestData handler.                                             *)
(*                                                                         *)
(* Go strings are TLA+ strings; a *string is <<>> (nil) or <<s>>; a        *)
(* time.Time is a record of its calendar fields; a float64 carrying a      *)
(* whole number is the integer itself.                                     *)
(***************************************************************************)
EXTENDS Integers, Sequences, FiniteSets, TLC

(***************************************************************************)
(* Bounds of the model.                                                    *)
(***************************************************************************)
MaxRecords == 3

\* readings of the clock
MaxTime == 2

\* operands of the grid of quotients
MaxOperand == 5

\* ingestion runs in flight at once
MaxRuns == 2

(***************************************************************************)
(* Library functions used by the validators (strings, time).               *)
(***************************************************************************)
Digits == {"0", "1", "2", "3", "4", "5", "6", "7", "8", "9"}

Lower == {"a", "b", "c", "d", "e", "f", "g", "h", "i", "j", "k", "l", "m",
          "n", "o", "p", "q", "r", "s", "t", "u", "v", "w", "x", "y", "z"}

Upper == {"A", "B", "C", "D", "E", "F", "G", "H", "I", "J", "K", "L", "M",
          "N", "O", "P", "Q", "R", "S", "T", "U", "V", "W", "X", "Y", "Z"}

SpaceChars == {" ", "\t", "\n", "\r"}

Letters == Lower \cup Upper

CharAt(s, i) == SubSeq(s, i, i)

AllIn(s, class) == \A i \in 1..Len(s) : CharAt(s, i) \in class

Min(a, b) == IF a < b THEN a ELSE b

RECURSIVE TrimLeft(_)
TrimLeft(s) == IF Len(s) > 0 /\ Head(s) \in SpaceChars THEN TrimLeft(Tail(s)) ELSE s

RECURSIVE TrimRight(_)
TrimRight(s) ==
    IF Len(s) > 0 /\ CharAt(s, Len(s)) \in SpaceChars
    THEN TrimRight(SubSeq(s, 1, Len(s) - 1))
    ELSE s

\* strings.TrimSpace: the string without its leading and trailing white space
TrimSpace(s) == TrimRight(TrimLeft(s))

DigitVal(c) ==
    CASE c = "0" -> 0 [] c = "1" -> 1 [] c = "2" -> 2 [] c = "3" -> 3
      [] c = "4" -> 4 [] c = "5" -> 5 [] c = "6" -> 6 [] c = "7" -> 7
      [] c = "8" -> 8 [] c = "9" -> 9

RECURSIVE Atoi(_)
Atoi(s) ==
    IF Len(s) = 0 THEN 0
    ELSE 10 * Atoi(SubSeq(s, 1, Len(s) - 1)) + DigitVal(CharAt(s, Len(s)))

\* fmt's %d verb for a non-negative int
Itoa(n) == ToString(n)

Pad2(n) == IF n < 10 THEN "0" \o Itoa(n) ELSE Itoa(n)

Pad4(n) ==
    IF n < 10 THEN "000" \o Itoa(n)
    ELSE IF n < 100 THEN "00" \o Itoa(n)
    ELSE IF n < 1000 THEN "0" \o Itoa(n)
    ELSE Itoa(n)

\* time.Time{}: January 1, year 1, 00:00:00 UTC
ZeroTime == [year |-> 1, month |-> 1, day |-> 1, hour |-> 0, min |-> 0, sec |-> 0, nsec |-> 0]

IsZero(t) == t = ZeroTime

IsLeap(y) == y % 4 = 0 /\ (y % 100 # 0 \/ y % 400 = 0)

DaysIn(m, y) ==
    IF m = 2 THEN (IF IsLeap(y) THEN 29 ELSE 28)
    ELSE IF m \in {4, 6, 9, 11} THEN 30 ELSE 31

\* Time.Format("2006-01-02")
FormatDate(t) == Pad4(t.year) \o "-" \o Pad2(t.month) \o "-" \o Pad2(t.day)

\* Time.Equal / Time.After / Time.Before on UTC times
TimeKey(t) == <<t.year, t.month, t.day, t.hour, t.min, t.sec, t.nsec>>

RECURSIVE LexLess(_, _)
LexLess(a, b) ==
    IF Len(a) = 0 THEN FALSE
    ELSE IF Head(a) # Head(b) THEN Head(a) < Head(b)
    ELSE LexLess(Tail(a), Tail(b))

TimeBefore(a, b) == LexLess(TimeKey(a), TimeKey(b))

TimeAfter(a, b) == LexLess(TimeKey(b), TimeKey(a))

\* time.Date(t.Year(), t.Month(), t.Day(), 0, 0, 0, 0, time.UTC)
DayOf(t) == [ZeroTime EXCEPT !.year = t.year, !.month = t.month, !.day = t.day]

\* The result of time.Parse: ok is FALSE when Parse returns an error.
ParseFail == [ok |-> FALSE, t |-> ZeroTime]

\* The shape "2006<sep>01<sep>02" at the front of s: four digits, two, two
DateShape(s, sep) ==
    /\ Len(s) >= 10
    /\ AllIn(SubSeq(s, 1, 4), Digits)
    /\ AllIn(SubSeq(s, 6, 7), Digits)
    /\ AllIn(SubSeq(s, 9, 10), Digits)
    /\ CharAt(s, 5) = sep /\ CharAt(s, 8) = sep

\* The day yy-mm-dd, which Parse refuses when month or day is out of range
DateOf(yy, mm, dd) ==
    IF mm \in 1..12 /\ dd >= 1 /\ dd <= DaysIn(mm, yy)
    THEN [ok |-> TRUE, t |-> [ZeroTime EXCEPT !.year = yy, !.month = mm, !.day = dd]]
    ELSE ParseFail

\* time.Parse for the date part "2006<sep>01<sep>02" at the front of s
ParseDatePrefix(s, sep) ==
    IF DateShape(s, sep)
    THEN DateOf(Atoi(SubSeq(s, 1, 4)), Atoi(SubSeq(s, 6, 7)), Atoi(SubSeq(s, 9, 10)))
    ELSE ParseFail

\* time.Parse(layout, s) for the layouts "2006-01-02" and "2006/01/02"
ParseDate(s, sep) == IF Len(s) = 10 THEN ParseDatePrefix(s, sep) ELSE ParseFail

ClockFail == [ok |-> FALSE, hour |-> 0, min |-> 0, sec |-> 0, nsec |-> 0, rest |-> ""]

\* The hour of a clock part has one or two digits.
HourLen(s) ==
    IF Len(s) >= 2 /\ CharAt(s, 1) \in Digits /\ CharAt(s, 2) \in Digits THEN 2
    ELSE IF Len(s) >= 1 /\ CharAt(s, 1) \in Digits THEN 1 ELSE 0

\* ":04:05" after the hour
ClockShape(r) ==
    /\ Len(r) >= 6
    /\ CharAt(r, 1) = ":" /\ CharAt(r, 4) = ":"
    /\ AllIn(SubSeq(r, 2, 3), Digits)
    /\ AllIn(SubSeq(r, 5, 6), Digits)

\* Parse accepts a fractional second after the seconds even when the layout
\* has none: the index of its last digit in r, 0 when r starts with none.
FracEnd(r) ==
    IF Len(r) >= 2 /\ CharAt(r, 1) \in {".", ","} /\ CharAt(r, 2) \in Digits
    THEN CHOOSE n \in 2..Len(r) :
            /\ AllIn(SubSeq(r, 2, n), Digits)
            /\ (n = Len(r) \/ CharAt(r, n + 1) \notin Digits)
    ELSE 0

\* The fraction, kept to millisecond precision
Millis(fdig) ==
    IF Len(fdig) = 1 THEN 100 * Atoi(fdig)
    ELSE IF Len(fdig) = 2 THEN 10 * Atoi(fdig)
    ELSE Atoi(fdig)

ClockOf(hh, mi, ss, ms, rest) ==
    [ok   |-> hh < 24 /\ mi < 60 /\ ss < 60,
     hour |-> hh, min |-> mi, sec |-> ss, nsec |-> ms, rest |-> rest]

ClockFrac(hh, mi, ss, r, fracEnd) ==
    ClockOf(hh, mi, ss,
            Millis(IF fracEnd = 0 THEN "" ELSE SubSeq(r, 2, Min(fracEnd, 4))),
            SubSeq(r, fracEnd + 1, Len(r)))

ClockAfterHour(hh, r) ==
    IF ClockShape(r)
    THEN ClockFrac(hh, Atoi(SubSeq(r, 2, 3)), Atoi(SubSeq(r, 5, 6)),
                   SubSeq(r, 7, Len(r)), FracEnd(SubSeq(r, 7, Len(r))))
    ELSE ClockFail

ParseClockAt(s, hlen) ==
    IF hlen > 0
    THEN ClockAfterHour(Atoi(SubSeq(s, 1, hlen)), SubSeq(s, hlen + 1, Len(s)))
    ELSE ClockFail

\* The clock part "15:04:05" of a layout, and what follows it in s
ParseClock(s) == ParseClockAt(s, HourLen(s))

\* A blank in a layout stands for a run of blanks in the value.
RECURSIVE CutSpace(_)
CutSpace(s) == IF Len(s) > 0 /\ Head(s) = " " THEN CutSpace(Tail(s)) ELSE s

AfterMid(rest, mid) == IF mid = " " THEN CutSpace(rest) ELSE Tail(rest)

WithClock(d, c, tail) ==
    IF d.ok /\ c.ok /\ c.rest = tail
    THEN [ok |-> TRUE,
          t  |-> [d.t EXCEPT !.hour = c.hour, !.min = c.min, !.sec = c.sec, !.nsec = c.nsec]]
    ELSE ParseFail

\* time.Parse(layout, s) for the layouts "2006-01-02T15:04:05Z"
\* (dateSep "-", mid "T", tail "Z"), "2006-01-02 15:04:05" and
\* "2006/01/02 15:04:05" (mid " ", tail "").
ParseDateTime(s, dateSep, mid, tail) ==
    IF Len(s) > 10 /\ CharAt(s, 11) = mid
    THEN WithClock(ParseDatePrefix(s, dateSep),
                   ParseClock(AfterMid(SubSeq(s, 11, Len(s)), mid)), tail)
    ELSE ParseFail

\* Exactly three fractional digits before the final Z
MillisShape(s) ==
    /\ Len(s) >= 5
    /\ CharAt(s, Len(s) - 4) = "."
    /\ AllIn(SubSeq(s, Len(s) - 3, Len(s) - 1), Digits)

\* time.Parse("2006-01-02T15:04:05.000Z", s)
ParseDateTimeMillis(s) ==
    IF MillisShape(s) THEN ParseDateTime(s, "-", "T", "Z") ELSE ParseFail

\* The first of two parses that succeeds, the second when neither does.
FirstOk(p1, p2) == IF p1.ok THEN p1 ELSE p2

(***************************************************************************)
(* models: FieldQuality, RecordQuality and the interface{} OriginalValue.  *)
(***************************************************************************)
\* OriginalValue interface{}: the dynamic type and the value it holds
StrVal(s) == [kind |-> "string", s |-> s, n |-> 0]

IntVal(n) == [kind |-> "int", s |-> "", n |-> n]

FloatVal(n) == [kind |-> "float64", s |-> "", n |-> n]

\* a *string kept as such: nil, or the address of a string
PtrVal(p) == [kind |-> IF p = <<>> THEN "nil" ELSE "*string",
              s |-> IF p = <<>> THEN "" ELSE p[1], n |-> 0]

FieldQuality(valid, description, original) ==
    [IsValid |-> valid, Description |-> description, OriginalValue |-> original]

\* m[k] = v on a Go map
MapPut(m, k, v) == [f \in (DOMAIN m) \cup {k} |-> IF f = k THEN v ELSE m[f]]

EmptyMap == [f \in {} |-> FieldQuality(TRUE, "", StrVal(""))]

NewQuality(id) ==
    [RecordID |-> id, IsValid |-> TRUE, FieldErrors |-> EmptyMap, ErrorCount |-> 0]

\* A failure that is recorded without being counted.
RecordFailureUncounted(quality, fieldName, description, original) ==
    [quality EXCEPT
        !.FieldErrors = MapPut(@, fieldName, FieldQuality(FALSE, description, original))]

\* quality.FieldErrors[fieldName] = FieldQuality{IsValid: false, ...}; quality.ErrorCount++
RecordFailure(quality, fieldName, description, original) ==
    [quality EXCEPT
        !.FieldErrors = MapPut(@, fieldName, FieldQuality(FALSE, description, original)),
        !.ErrorCount  = @ + 1]

\* quality.FieldErrors[fieldName] = FieldQuality{IsValid: true, ...}
RecordValid(quality, fieldName, description, original) ==
    [quality EXCEPT
        !.FieldErrors = MapPut(@, fieldName, FieldQuality(TRUE, description, original))]

\* What a validator hands back: the value it returns and the accumulator
\* it was given by reference, as it leaves it.
Out(val, quality) == [val |-> val, quality |-> quality]

(***************************************************************************)
(* transformer: field validators.                                          *)
(***************************************************************************)
validChannels == <<"google_ads", "facebook_ads", "tiktok_ads", "linkedin_ads", "twitter_ads">>

validStages == <<"lead", "opportunity", "closed_won", "closed_lost">>

InList(v, list) == \E i \in 1..Len(list) : list[i] = v

DateOutcome(p, dateStr, fieldName, quality) ==
    IF p.ok
    THEN Out(p.t, RecordValid(quality, fieldName, "Valid date", StrVal(dateStr)))
    ELSE Out(ZeroTime, RecordFailure(quality, fieldName,
             "Invalid date format - Expected YYYY-MM-DD or YYYY/MM/DD", StrVal(dateStr)))

validateAndParseDate(dateStr, fieldName, quality) ==
    IF TrimSpace(dateStr) = ""
    THEN Out(ZeroTime, RecordFailure(quality, fieldName,
                 "Missing - Date field is empty", StrVal(dateStr)))
    ELSE DateOutcome(FirstOk(ParseDate(dateStr, "-"), ParseDate(dateStr, "/")),
                     dateStr, fieldName, quality)

validateCampaignID(id, fieldName, quality) ==
    IF TrimSpace(id) = ""
    THEN Out("unknown", RecordFailure(quality, fieldName,
                 "Missing - Campaign ID is empty, using 'unknown'", StrVal(id)))
    ELSE Out(id, RecordValid(quality, fieldName, "Valid campaign ID", StrVal(id)))

\* A validator that falls back to "unknown" for a channel it does not know.
validateChannelWithFallback(channel, fieldName, quality) ==
    IF TrimSpace(channel) = ""
    THEN Out("unknown", RecordFailure(quality, fieldName,
                 "Missing - Channel is empty", StrVal(channel)))
    ELSE IF InList(channel, validChannels)
    THEN Out(channel, RecordValid(quality, fieldName, "Valid channel", StrVal(channel)))
    ELSE Out("unknown", RecordFailure(quality, fieldName,
                 "Unknown channel type: " \o channel, StrVal(channel)))

validateChannel(channel, fieldName, quality) ==
    IF TrimSpace(channel) = ""
    THEN Out("unknown", RecordFailure(quality, fieldName,
                 "Missing - Channel is empty", StrVal(channel)))
    ELSE IF InList(channel, validChannels)
    THEN Out(channel, RecordValid(quality, fieldName, "Valid channel", StrVal(channel)))
    ELSE Out(channel, RecordFailure(quality, fieldName,
                 "Unknown channel type: " \o channel, StrVal(channel)))

\* A validator that rejects zero as well.
validateClicksRejectsZero(clicks, fieldName, quality) ==
    IF clicks <= 0
    THEN Out(0, RecordFailure(quality, fieldName,
                 "Invalid - Clicks cannot be negative, setting to 0", IntVal(clicks)))
    ELSE Out(clicks, RecordValid(quality, fieldName, "Valid clicks count", IntVal(clicks)))

validateClicks(clicks, fieldName, quality) ==
    IF clicks < 0
    THEN Out(0, RecordFailure(quality, fieldName,
                 "Invalid - Clicks cannot be negative, setting to 0", IntVal(clicks)))
    ELSE Out(clicks, RecordValid(quality, fieldName, "Valid clicks count", IntVal(clicks)))

validateImpressions(impressions, fieldName, quality) ==
    IF impressions < 0
    THEN Out(0, RecordFailure(quality, fieldName,
                 "Invalid - Impressions cannot be negative, setting to 0",
                 IntVal(impressions)))
    ELSE Out(impressions, RecordValid(quality, fieldName, "Valid impressions count",
                 IntVal(impressions)))

validateCost(cost, fieldName, quality) ==
    IF cost < 0
    THEN Out(0, RecordFailure(quality, fieldName,
                 "Invalid - Cost cannot be negative, setting to 0", FloatVal(cost)))
    ELSE Out(cost, RecordValid(quality, fieldName, "Valid cost amount", FloatVal(cost)))

\* A blank id that is kept as it came.
validateOpportunityIDKeepingRaw(id, fieldName, quality) ==
    IF TrimSpace(id) = ""
    THEN Out(id, RecordFailure(quality, fieldName,
                 "Missing - Opportunity ID is empty", StrVal(id)))
    ELSE Out(id, RecordValid(quality, fieldName, "Valid opportunity ID", StrVal(id)))

validateOpportunityID(id, fieldName, quality) ==
    IF TrimSpace(id) = ""
    THEN Out("unknown", RecordFailure(quality, fieldName,
                 "Missing - Opportunity ID is empty", StrVal(id)))
    ELSE Out(id, RecordValid(quality, fieldName, "Valid opportunity ID", StrVal(id)))

\* regexp `^[a-zA-Z0-9._%+-]+@[a-zA-Z0-9.-]+\.[a-zA-Z]{2,}$`
emailLocalChars == Letters \cup Digits \cup {".", "_", "%", "+", "-"}

emailDomainChars == Letters \cup Digits \cup {".", "-"}

emailRegexMatch(email) ==
    LET n == Len(email)
    IN  \E at \in 2..n :
            /\ CharAt(email, at) = "@"
            /\ AllIn(SubSeq(email, 1, at - 1), emailLocalChars)
            /\ \E dot \in (at + 2)..(n - 2) :
                   /\ CharAt(email, dot) = "."
                   /\ AllIn(SubSeq(email, at + 1, dot - 1), emailDomainChars)
                   /\ AllIn(SubSeq(email, dot + 1, n), Letters)

\* A validator that defaults a blank email as the identifier validators do.
validateEmailWithDefault(email, fieldName, quality) ==
    IF TrimSpace(email) = ""
    THEN Out("unknown", RecordFailure(quality, fieldName,
                 "Missing - Email is empty", StrVal(email)))
    ELSE IF ~emailRegexMatch(email)
    THEN Out(email, RecordFailure(quality, fieldName,
                 "Invalid email format", StrVal(email)))
    ELSE Out(email, RecordValid(quality, fieldName, "Valid email", StrVal(email)))

validateEmail(email, fieldName, quality) ==
    IF TrimSpace(email) = ""
    THEN Out(email, RecordFailure(quality, fieldName,
                 "Missing - Email is empty", StrVal(email)))
    ELSE IF ~emailRegexMatch(email)
    THEN Out(email, RecordFailure(quality, fieldName,
                 "Invalid email format", StrVal(email)))
    ELSE Out(email, RecordValid(quality, fieldName, "Valid email", StrVal(email)))

validateStage(stage, fieldName, quality) ==
    IF TrimSpace(stage) = ""
    THEN Out("unknown", RecordFailure(quality, fieldName,
                 "Missing - Stage is empty", StrVal(stage)))
    ELSE IF InList(stage, validStages)
    THEN Out(stage, RecordValid(quality, fieldName, "Valid stage", StrVal(stage)))
    ELSE Out(stage, RecordFailure(quality, fieldName,
                 "Unknown stage: " \o stage, StrVal(stage)))

validateAmount(amount, fieldName, quality) ==
    IF amount < 0
    THEN Out(0, RecordFailure(quality, fieldName,
                 "Invalid - Amount cannot be negative, setting to 0", FloatVal(amount)))
    ELSE Out(amount, RecordValid(quality, fieldName, "Valid amount", FloatVal(amount)))

\* The formats are tried in the order of the slice.
ParseAnyFormat(dateTimeStr) ==
    FirstOk(ParseDateTime(dateTimeStr, "-", "T", "Z"),
        FirstOk(ParseDateTimeMillis(dateTimeStr),
            FirstOk(ParseDateTime(dateTimeStr, "-", " ", ""),
                    ParseDateTime(dateTimeStr, "/", " ", ""))))

DateTimeOutcome(p, dateTimeStr, fieldName, quality) ==
    IF p.ok
    THEN Out(p.t, RecordValid(quality, fieldName, "Valid datetime", StrVal(dateTimeStr)))
    ELSE Out(ZeroTime, RecordFailure(quality, fieldName,
             "Invalid datetime format - Expected ISO format or YYYY-MM-DD HH:MM:SS",
             StrVal(dateTimeStr)))

validateAndParseDateTime(dateTimeStr, fieldName, quality) ==
    IF TrimSpace(dateTimeStr) = ""
    THEN Out(ZeroTime, RecordFailure(quality, fieldName,
                 "Missing - DateTime field is empty", StrVal(dateTimeStr)))
    ELSE DateTimeOutcome(ParseAnyFormat(dateTimeStr), dateTimeStr, fieldName, quality)

validateUTMCampaign(campaign, fieldName, quality) ==
    IF TrimSpace(campaign) = ""
    THEN Out("unknown", RecordFailure(quality, fieldName,
                 "Missing - UTM Campaign is empty, using 'unknown'", StrVal(campaign)))
    ELSE Out(campaign, RecordValid(quality, fieldName, "Valid UTM campaign",
                 StrVal(campaign)))

\* A validator that tests the string for emptiness before trimming it.
validateUTMSourceUntrimmedTest(source, fieldName, quality) ==
    IF source = <<>> \/ source[1] = ""
    THEN Out("unknown", RecordFailure(quality, fieldName,
                 "Missing - UTM Source is null or empty, using 'unknown'", PtrVal(source)))
    ELSE Out(TrimSpace(source[1]), RecordValid(quality, fieldName, "Valid UTM source",
                 StrVal(source[1])))

validateUTMSource(source, fieldName, quality) ==
    IF source = <<>> \/ TrimSpace(source[1]) = ""
    THEN Out("unknown", RecordFailure(quality, fieldName,
                 "Missing - UTM Source is null or empty, using 'unknown'", PtrVal(source)))
    ELSE Out(TrimSpace(source[1]), RecordValid(quality, fieldName, "Valid UTM source",
                 StrVal(source[1])))

validateUTMMedium(medium, fieldName, quality) ==
    IF medium = <<>> \/ TrimSpace(medium[1]) = ""
    THEN Out("unknown", RecordFailure(quality, fieldName,
                 "Missing - UTM Medium is null or empty, using 'unknown'", PtrVal(medium)))
    ELSE Out(TrimSpace(medium[1]), RecordValid(quality, fieldName, "Valid UTM medium",
                 StrVal(medium[1])))

generateUTMKey(campaign, source, medium) ==
    LET c == IF TrimSpace(campaign) = "" THEN "unknown" ELSE campaign
    IN  c \o "|" \o source \o "|" \o medium

(***************************************************************************)
(* transformer: deduplication.                                             *)
(***************************************************************************)
NoneSeen == [k \in {} |-> 0]

\* A key that leaves the date out.
AdsKeyWithoutDate(record) == record.CampaignID \o "|" \o record.Channel

\* fmt.Sprintf("%s|%s|%s", record.Date.Format("2006-01-02"), record.CampaignID, record.Channel)
AdsKey(record) == FormatDate(record.Date) \o "|" \o record.CampaignID \o "|" \o record.Channel

\* The state of one deduplication scan: seen and unique are the function's
\* locals; records is the caller's slice, whose elements share their
\* FieldErrors map with the loop variable; dropped lists the loop variable's
\* value at the end of each iteration that did not keep it.
DedupStart(records) ==
    [seen |-> NoneSeen, unique |-> <<>>, records |-> records, dropped |-> <<>>]

\* The loop variable once the else branch has marked it
Marked(record, fq) ==
    [record EXCEPT !.Quality.FieldErrors = MapPut(@, "duplicate", fq),
                   !.Quality.ErrorCount  = @ + 1,
                   !.Quality.IsValid     = FALSE]

\* A deduplicator that also keeps the copy it has marked.
MarkDuplicateAndKeep(st, i, record, fq) ==
    [st EXCEPT !.records[i].Quality.FieldErrors = MapPut(@, "duplicate", fq),
               !.unique  = Append(@, Marked(record, fq)),
               !.dropped = Append(@, Marked(record, fq))]

\* The else branch: record is a copy of records[i], so ErrorCount and IsValid
\* change on the copy only, while the map entry is written through the
\* shared map.
MarkDuplicate(st, i, record, fq) ==
    [st EXCEPT !.records[i].Quality.FieldErrors = MapPut(@, "duplicate", fq),
               !.dropped = Append(@, Marked(record, fq))]

\* One iteration of the loop over normalized ads records
dedupAdsStep(st, i, record, key) ==
    IF key \notin DOMAIN st.seen
    THEN [st EXCEPT !.seen = MapPut(@, key, i - 1), !.unique = Append(@, record)]
    ELSE MarkDuplicate(st, i, record,
             FieldQuality(FALSE,
                 "Duplicate record found (original at index " \o Itoa(st.seen[key]) \o ")",
                 StrVal(key)))

RECURSIVE dedupAdsLoop(_, _, _)
dedupAdsLoop(records, i, st) ==
    IF i > Len(records) THEN st
    ELSE dedupAdsLoop(records, i + 1, dedupAdsStep(st, i, records[i], AdsKey(records[i])))

\* A deduplicator that forgets a key once it has dropped a duplicate of it.
dedupAdsStepForgetful(st, i, record, key) ==
    IF key \notin DOMAIN st.seen
    THEN [st EXCEPT !.seen = MapPut(@, key, i - 1), !.unique = Append(@, record)]
    ELSE [MarkDuplicate(st, i, record,
              FieldQuality(FALSE, "Duplicate record found", StrVal(key)))
             EXCEPT !.seen = [k \in (DOMAIN st.seen) \ {key} |-> st.seen[k]]]

RECURSIVE dedupAdsLoopForgetful(_, _, _)
dedupAdsLoopForgetful(records, i, st) ==
    IF i > Len(records) THEN st
    ELSE dedupAdsLoopForgetful(records, i + 1,
             dedupAdsStepForgetful(st, i, records[i], AdsKey(records[i])))

deduplicateAdsRecordsForgetful(records) ==
    dedupAdsLoopForgetful(records, 1, DedupStart(records))

deduplicateAdsRecords(records) == dedupAdsLoop(records, 1, DedupStart(records))

\* One iteration of the loop over normalized CRM records
dedupCRMStep(st, i, record, key) ==
    IF key \notin DOMAIN st.seen
    THEN [st EXCEPT !.seen = MapPut(@, key, i - 1), !.unique = Append(@, record)]
    ELSE MarkDuplicate(st, i, record,
             FieldQuality(FALSE,
                 "Duplicate opportunity ID found (original at index "
                     \o Itoa(st.seen[key]) \o ")",
                 StrVal(key)))

RECURSIVE dedupCRMLoop(_, _, _)
dedupCRMLoop(records, i, st) ==
    IF i > Len(records) THEN st
    ELSE dedupCRMLoop(records, i + 1,
             dedupCRMStep(st, i, records[i], records[i].OpportunityID))

deduplicateCRMRecords(records) == dedupCRMLoop(records, 1, DedupStart(records))

(***************************************************************************)
(* transformer: record normalizers.                                        *)
(***************************************************************************)
\* A normalizer that leaves IsValid as the accumulator was created.
FinalValidationOmitted(quality) == quality

\* Final record validation: normalizedRecord.Quality.IsValid = normalizedRecord.Quality.ErrorCount == 0
FinalValidation(quality) == [quality EXCEPT !.IsValid = (quality.ErrorCount = 0)]

\* One iteration of the loop of NormalizeAdsRecords, for the record at
\* (zero-based) index i.  The validators run in the order of the composite
\* literal; the gc compiler evaluates the calls before it reads the operand
\* `quality`, so the Quality field is a copy of the accumulator as the last
\* validator left it.
NormalizeAdsRecord(record, i) ==
    LET q0 == NewQuality("ads_" \o Itoa(i))
        date        == validateAndParseDate(record.Date, "date", q0)
        campaignID  == validateCampaignID(record.CampaignID, "campaign_id", date.quality)
        channel     == validateChannel(record.Channel, "channel", campaignID.quality)
        clicks      == validateClicks(record.Clicks, "clicks", channel.quality)
        impressions == validateImpressions(record.Impressions, "impressions", clicks.quality)
        cost        == validateCost(record.Cost, "cost", impressions.quality)
        utmCampaign == validateUTMCampaign(record.UTMCampaign, "utm_campaign", cost.quality)
        utmSource   == validateUTMSource(record.UTMSource, "utm_source", utmCampaign.quality)
        utmMedium   == validateUTMMedium(record.UTMMedium, "utm_medium", utmSource.quality)
        quality     == utmMedium.quality
    IN  [Date        |-> date.val,
         CampaignID  |-> campaignID.val,
         Channel     |-> channel.val,
         Clicks      |-> clicks.val,
         Impressions |-> impressions.val,
         Cost        |-> cost.val,
         UTMCampaign |-> utmCampaign.val,
         UTMSource   |-> utmSource.val,
         UTMMedium   |-> utmMedium.val,
         UTMKey      |-> generateUTMKey(utmCampaign.val, utmSource.val, utmMedium.val),
         Quality     |-> FinalValidation(quality)]

\* A normalizer that returns every record it has normalized.
NormalizeAdsRecordsNoDedup(records) ==
    LET normalized == [i \in 1..Len(records) |-> NormalizeAdsRecord(records[i], i - 1)]
    IN  [DedupStart(normalized) EXCEPT !.unique = normalized]

NormalizeAdsRecords(records) ==
    deduplicateAdsRecords([i \in 1..Len(records) |-> NormalizeAdsRecord(records[i], i - 1)])

NormalizeCRMRecord(record, i) ==
    LET q0 == NewQuality("crm_" \o Itoa(i))
        opportunityID == validateOpportunityID(record.OpportunityID, "opportunity_id", q0)
        contactEmail  == validateEmail(record.ContactEmail, "contact_email", opportunityID.quality)
        stage         == validateStage(record.Stage, "stage", contactEmail.quality)
        amount        == validateAmount(record.Amount, "amount", stage.quality)
        createdAt     == validateAndParseDateTime(record.CreatedAt, "created_at", amount.quality)
        utmCampaign   == validateUTMCampaign(record.UTMCampaign, "utm_campaign", createdAt.quality)
        utmSource     == validateUTMSource(record.UTMSource, "utm_source", utmCampaign.quality)
        utmMedium     == validateUTMMedium(record.UTMMedium, "utm_medium", utmSource.quality)
        quality       == utmMedium.quality
    IN  [OpportunityID |-> opportunityID.val,
         ContactEmail  |-> contactEmail.val,
         Stage         |-> stage.val,
         Amount        |-> amount.val,
         CreatedAt     |-> createdAt.val,
         UTMCampaign   |-> utmCampaign.val,
         UTMSource     |-> utmSource.val,
         UTMMedium     |-> utmMedium.val,
         UTMKey        |-> generateUTMKey(utmCampaign.val, utmSource.val, utmMedium.val),
         Quality       |-> FinalValidation(quality)]

NormalizeCRMRecords(records) ==
    deduplicateCRMRecords([i \in 1..Len(records) |-> NormalizeCRMRecord(records[i], i - 1)])

(***************************************************************************)
(* float64 arithmetic on values that are not negative.  A value is zero,   *)
(* or the 53 bits of its significand, the most significant (a 1) first,    *)
(* with the binary exponent e of that first bit.  Division and             *)
(* multiplication round to nearest, ties to even, as the hardware does.    *)
(***************************************************************************)
\* the scores of batches of up to MaxScored records are computed once
MaxScored == 10

FloatZero == [m |-> <<>>, e |-> 0]

RECURSIVE Pow2(_)
Pow2(n) == IF n = 0 THEN 1 ELSE 2 * Pow2(n - 1)

\* the bits of n, most significant first
RECURSIVE BitsOf(_)
BitsOf(n) == IF n = 0 THEN <<>> ELSE Append(BitsOf(n \div 2), n % 2)

\* the bits of the number that follows the one of bits
RECURSIVE Increment(_)
Increment(bits) ==
    IF Len(bits) = 0 THEN <<1>>
    ELSE IF bits[Len(bits)] = 0 THEN [bits EXCEPT ![Len(bits)] = 1]
    ELSE Append(Increment(SubSeq(bits, 1, Len(bits) - 1)), 0)

\* A significand of 54 bits is one that the increment has carried out of.
Normal(m, e) ==
    IF Len(m) > 53 THEN [m |-> SubSeq(m, 1, 53), e |-> e + 1] ELSE [m |-> m, e |-> e]

\* bits holds 54 bits or more of a result whose first bit has exponent e;
\* sticky tells whether the exact result has something beyond them.
RoundsUp(bits, sticky) ==
    /\ bits[54] = 1
    /\ \/ sticky
       \/ \E i \in 55..Len(bits) : bits[i] = 1
       \/ bits[53] = 1

RoundToFloat(bits, e, sticky) ==
    IF RoundsUp(bits, sticky)
    THEN Normal(Increment(SubSeq(bits, 1, 53)), e)
    ELSE [m |-> SubSeq(bits, 1, 53), e |-> e]

\* the exponent of the first bit of a / b, for positive integers a and b
RECURSIVE Exponent(_, _)
Exponent(a, b) ==
    IF a >= 2 * b THEN Exponent(a, 2 * b) + 1
    ELSE IF a < b THEN Exponent(2 * a, b) - 1
    ELSE 0

\* the first n bits of r / b, for b <= r < 2b at the start
RECURSIVE QuotientBits(_, _, _)
QuotientBits(r, b, n) ==
    IF n = 0 THEN <<>>
    ELSE IF r >= b THEN <<1>> \o QuotientBits(2 * (r - b), b, n - 1)
    ELSE <<0>> \o QuotientBits(2 * r, b, n - 1)

\* what is left of r once n bits of r / b are out
RECURSIVE QuotientRest(_, _, _)
QuotientRest(r, b, n) ==
    IF n = 0 THEN r
    ELSE IF r >= b THEN QuotientRest(2 * (r - b), b, n - 1)
    ELSE QuotientRest(2 * r, b, n - 1)

FQuotient(r, b, e) == RoundToFloat(QuotientBits(r, b, 54), e, QuotientRest(r, b, 54) # 0)

FDivAt(a, b, e) ==
    IF e >= 0 THEN FQuotient(a, b * Pow2(e), e) ELSE FQuotient(a * Pow2(0 - e), b, e)

\* float64(a) / float64(b) for integers a >= 0 and b > 0
FDiv(a, b) == IF a = 0 THEN FloatZero ELSE FDivAt(a, b, Exponent(a, b))

\* float64(n)
FloatOfInt(n) == FDiv(n, 1)

\* the bits of bits * c + carry
RECURSIVE MulSmall(_, _, _)
MulSmall(bits, c, carry) ==
    IF Len(bits) = 0 THEN BitsOf(carry)
    ELSE Append(MulSmall(SubSeq(bits, 1, Len(bits) - 1), c,
                         (bits[Len(bits)] * c + carry) \div 2),
                (bits[Len(bits)] * c + carry) % 2)

FProduct(product, e) == RoundToFloat(product, e + Len(product) - 53, FALSE)

\* x * c for a float64 x and an integer c of two bits or more
FMul(x, c) == IF x = FloatZero THEN FloatZero ELSE FProduct(MulSmall(x.m, c, 0), x.e)

\* adsScore, crmScore and overallScore for the batches of up to MaxScored
\* records
ScoreTable ==
    [total \in 1..MaxScored |-> [valid \in 0..total |-> FMul(FDiv(valid, total), 100)]]

\* A score that is left as the fraction of valid records.
ScoreAsFraction(valid, total) ==
    IF total > 0 THEN FDiv(valid, total) ELSE FloatZero

\* float64(valid) / float64(total) * 100, and 0.0 for no record
Score(valid, total) ==
    IF total > MaxScored THEN FMul(FDiv(valid, total), 100)
    ELSE IF total > 0 THEN ScoreTable[total][valid]
    ELSE FloatZero

(***************************************************************************)
(* transformer: quality report.                                            *)
(***************************************************************************)
RECURSIVE SumSeq(_)
SumSeq(ns) == IF Len(ns) = 0 THEN 0 ELSE Head(ns) + SumSeq(Tail(ns))

QualityOf(records) == [i \in 1..Len(records) |-> records[i].Quality]

CountValid(records) == Cardinality({i \in 1..Len(records) : records[i].Quality.IsValid})

\* the number of invalid field entries of one record that carry description d
IssuesIn(quality, d) ==
    Cardinality({f \in DOMAIN quality.FieldErrors :
                    /\ ~quality.FieldErrors[f].IsValid
                    /\ quality.FieldErrors[f].Description = d})

InvalidDescriptions(records) ==
    UNION {{records[i].Quality.FieldErrors[f].Description :
               f \in {g \in DOMAIN records[i].Quality.FieldErrors :
                         ~records[i].Quality.FieldErrors[g].IsValid}} :
           i \in 1..Len(records)}

\* issueCount[d] once both loops have run
issueCount(adsRecords, crmRecords, d) ==
    SumSeq([i \in 1..Len(adsRecords) |-> IssuesIn(adsRecords[i].Quality, d)])
  + SumSeq([i \in 1..Len(crmRecords) |-> IssuesIn(crmRecords[i].Quality, d)])

\* A list that takes in every description that occurs at all.
identifyCommonIssuesFromOne(adsRecords, crmRecords) ==
    {d \o " (occurs " \o Itoa(issueCount(adsRecords, crmRecords, d)) \o " times)" :
        d \in InvalidDescriptions(adsRecords) \cup InvalidDescriptions(crmRecords)}

\* The slice is built in the iteration order of a map, which Go leaves
\* unspecified: the model keeps the set of its elements.
identifyCommonIssues(adsRecords, crmRecords) ==
    {d \o " (occurs " \o Itoa(issueCount(adsRecords, crmRecords, d)) \o " times)" :
        d \in {e \in InvalidDescriptions(adsRecords) \cup InvalidDescriptions(crmRecords) :
                  issueCount(adsRecords, crmRecords, e) > 1}}

GenerateQualityReport(adsRecords, crmRecords) ==
    LET validAds == CountValid(adsRecords)
        validCRM == CountValid(crmRecords)
    IN  [Summary |->
            [TotalAdsRecords     |-> Len(adsRecords),
             ValidAdsRecords     |-> validAds,
             AdsQualityScore     |-> Score(validAds, Len(adsRecords)),
             TotalCRMRecords     |-> Len(crmRecords),
             ValidCRMRecords     |-> validCRM,
             CRMQualityScore     |-> Score(validCRM, Len(crmRecords)),
             OverallQualityScore |-> Score(validAds + validCRM,
                                           Len(adsRecords) + Len(crmRecords)),
             CommonIssues        |-> identifyCommonIssues(adsRecords, crmRecords)],
         AdsReport |-> QualityOf(adsRecords),
         CRMReport |-> QualityOf(crmRecords)]

(***************************************************************************)
(* calculator: channel and funnel metrics.  Ratios are kept in thousandths.*)
(***************************************************************************)
\* A safeDivide that divides by a zero denominator as if it were one.
safeDivideUnguarded(numerator, denominator) ==
    IF denominator = 0 THEN 1000 * numerator
    ELSE (2000 * numerator + denominator) \div (2 * denominator)

\* math.Round(numerator / denominator * 1000) / 1000, as a count of
\* thousandths.  No operand is negative, and math.Round rounds halves away
\* from zero.  The quotient of two finite operands with a non-zero
\* denominator is neither NaN nor infinite.  The value is the float64 one
\* unless 1000 * numerator / denominator is exactly a half, where the float64
\* product may fall below the half (201 / 400 gives 0.502): that takes a
\* denominator that is a multiple of 16, which no sum of the records below is.
safeDivide(numerator, denominator) ==
    IF denominator = 0 THEN 0
    ELSE (2000 * numerator + denominator) \div (2 * denominator)

\* The sequences that list every element of S once: the orders in which a
\* range over a map of |S| keys can visit them.
Orderings(S) ==
    {s \in [1..Cardinality(S) -> S] : \A i, j \in 1..Cardinality(S) : s[i] = s[j] => i = j}

totalClicks(adsGroup) == SumSeq([i \in 1..Len(adsGroup) |-> adsGroup[i].Clicks])

totalImpressions(adsGroup) == SumSeq([i \in 1..Len(adsGroup) |-> adsGroup[i].Impressions])

totalCost(adsGroup) == SumSeq([i \in 1..Len(adsGroup) |-> adsGroup[i].Cost])

utmKeys(adsGroup) == {adsGroup[i].UTMKey : i \in 1..Len(adsGroup)}

\* The tallies of the switch on crmRecord.Stage over the matched records
StageCount(matched, stage) ==
    Cardinality({i \in 1..Len(matched) : matched[i].Stage = stage})

leads(matched) == StageCount(matched, "lead")

\* A tally that passes over the lost opportunities.
opportunitiesWithoutLost(matched) == StageCount(matched, "opportunity")

opportunities(matched) ==
    StageCount(matched, "opportunity") + StageCount(matched, "closed_lost")

closedWon(matched) == StageCount(matched, "closed_won")

revenue(matched) ==
    SumSeq([i \in 1..Len(matched) |->
               IF matched[i].Stage = "closed_won" THEN matched[i].Amount ELSE 0])

\* The fields that the rows of both modes share.
MetricsFields(clicks, impressions, cost, leadCount, opps, won, rev) ==
    [Clicks        |-> clicks,
     Impressions   |-> impressions,
     Cost          |-> cost,
     Leads         |-> leadCount,
     Opportunities |-> opps + won,
     ClosedWon     |-> won,
     Revenue       |-> rev,
     CPC           |-> safeDivide(cost, clicks),
     CPA           |-> safeDivide(cost, leadCount),
     CVRLeadToOpp  |-> safeDivide(opps + won, leadCount),
     CVROppToWon   |-> safeDivide(won, opps + won),
     ROAS          |-> safeDivide(rev, cost)]

MetricsOf(adsGroup, matched) ==
    MetricsFields(totalClicks(adsGroup), totalImpressions(adsGroup), totalCost(adsGroup),
                  leads(matched), opportunities(matched), closedWon(matched),
                  revenue(matched))

\* CalculateChannelMetrics: the key of a record in adsGrouped
ChannelKey(record) == FormatDate(record.Date) \o "|" \o record.Channel

ChannelPasses(record, channel) == channel = "" \/ record.Channel = channel

\* the keys of adsGrouped
ChannelKeys(adsRecords, channel) ==
    {ChannelKey(adsRecords[i]) :
        i \in {j \in 1..Len(adsRecords) : ChannelPasses(adsRecords[j], channel)}}

\* A group that keeps the last record of its key only.
ChannelGroupReplacing(adsRecords, channel, key) ==
    SubSeq(SelectSeq(adsRecords, LAMBDA r : ChannelPasses(r, channel) /\ ChannelKey(r) = key),
           Len(SelectSeq(adsRecords,
                         LAMBDA r : ChannelPasses(r, channel) /\ ChannelKey(r) = key)),
           Len(SelectSeq(adsRecords,
                         LAMBDA r : ChannelPasses(r, channel) /\ ChannelKey(r) = key)))

\* adsGrouped[key]
ChannelGroup(adsRecords, channel, key) ==
    SelectSeq(adsRecords, LAMBDA r : ChannelPasses(r, channel) /\ ChannelKey(r) = key)

\* A match on the UTM key alone.
ChannelMatchedAnyDay(adsGroup, crmRecords) ==
    SelectSeq(crmRecords, LAMBDA c : c.UTMKey \in utmKeys(adsGroup))

\* the CRM records that pass the test of the inner loop
ChannelMatched(adsGroup, crmRecords) ==
    SelectSeq(crmRecords,
              LAMBDA c : /\ FormatDate(c.CreatedAt) = FormatDate(adsGroup[1].Date)
                         /\ c.UTMKey \in utmKeys(adsGroup))

\* the row appended for one group
ChannelRow(adsGroup, crmRecords) ==
    [Channel |-> adsGroup[1].Channel, Date |-> FormatDate(adsGroup[1].Date)]
        @@ MetricsOf(adsGroup, ChannelMatched(adsGroup, crmRecords))

\* The ads records that pass the filter and match the CRM record
MatchingAds(adsRecords, channel, c) ==
    {i \in 1..Len(adsRecords) :
        /\ ChannelPasses(adsRecords[i], channel)
        /\ Len(ChannelMatched(SubSeq(adsRecords, i, i), <<c>>)) = 1}

\* Rows that count a CRM record once: in the group of the first ads record
\* that matches it.
ChannelRowsCountingOnce(adsRecords, crmRecords, channel) ==
    {[Channel |-> ChannelGroup(adsRecords, channel, key)[1].Channel,
      Date |-> FormatDate(ChannelGroup(adsRecords, channel, key)[1].Date)]
        @@ MetricsOf(ChannelGroup(adsRecords, channel, key),
                     SelectSeq(crmRecords,
                               LAMBDA c :
                                   \E i \in MatchingAds(adsRecords, channel, c) :
                                       /\ ChannelKey(adsRecords[i]) = key
                                       /\ \A other \in MatchingAds(adsRecords, channel, c) :
                                              i <= other)) :
        key \in ChannelKeys(adsRecords, channel)}

ChannelRows(adsRecords, crmRecords, channel) ==
    {ChannelRow(ChannelGroup(adsRecords, channel, key), crmRecords) :
        key \in ChannelKeys(adsRecords, channel)}

\* The slices CalculateChannelMetrics can return: one row per key of
\* adsGrouped, in the order the range over the map visits them.
CalculateChannelMetrics(adsRecords, crmRecords, channel) ==
    Orderings(ChannelRows(adsRecords, crmRecords, channel))

\* CalculateFunnelMetrics
FunnelPasses(record, utmCampaign) == utmCampaign = "" \/ record.UTMCampaign = utmCampaign

FunnelKeys(adsRecords, utmCampaign) ==
    {adsRecords[i].UTMKey :
        i \in {j \in 1..Len(adsRecords) : FunnelPasses(adsRecords[j], utmCampaign)}}

FunnelGroup(adsRecords, utmCampaign, utmKey) ==
    SelectSeq(adsRecords, LAMBDA r : FunnelPasses(r, utmCampaign) /\ r.UTMKey = utmKey)

\* A match that also asks for the day of the first record of the group.
FunnelMatchedSameDay(utmKey, adsGroup, crmRecords) ==
    SelectSeq(crmRecords,
              LAMBDA c : /\ c.UTMKey = utmKey
                         /\ FormatDate(c.CreatedAt) = FormatDate(adsGroup[1].Date))

FunnelMatched(utmKey, adsGroup, crmRecords) ==
    SelectSeq(crmRecords, LAMBDA c : c.UTMKey = utmKey)

FunnelRow(utmKey, adsGroup, crmRecords) ==
    [UTMCampaign |-> adsGroup[1].UTMCampaign,
     UTMSource   |-> adsGroup[1].UTMSource,
     UTMMedium   |-> adsGroup[1].UTMMedium,
     UTMKey      |-> utmKey]
        @@ MetricsOf(adsGroup, FunnelMatched(utmKey, adsGroup, crmRecords))

FunnelRows(adsRecords, crmRecords, utmCampaign) ==
    {FunnelRow(utmKey, FunnelGroup(adsRecords, utmCampaign, utmKey), crmRecords) :
        utmKey \in FunnelKeys(adsRecords, utmCampaign)}

CalculateFunnelMetrics(adsRecords, crmRecords, utmCampaign) ==
    Orderings(FunnelRows(adsRecords, crmRecords, utmCampaign))

(***************************************************************************)
(* exporter.                                                               *)
(***************************************************************************)
ExportRecordOf(metric, campaignID) ==
    [Date          |-> metric.Date,
     Channel       |-> metric.Channel,
     CampaignID    |-> campaignID,
     Clicks        |-> metric.Clicks,
     Impressions   |-> metric.Impressions,
     Cost          |-> metric.Cost,
     Leads         |-> metric.Leads,
     Opportunities |-> metric.Opportunities,
     ClosedWon     |-> metric.ClosedWon,
     Revenue       |-> metric.Revenue,
     CPC           |-> metric.CPC,
     CPA           |-> metric.CPA,
     CVRLeadToOpp  |-> metric.CVRLeadToOpp,
     CVROppToWon   |-> metric.CVROppToWon,
     ROAS          |-> metric.ROAS]

\* A conversion that lists the rows from the last to the first.
ConvertChannelMetricsToExportReversed(metrics) ==
    [i \in 1..Len(metrics) |-> ExportRecordOf(metrics[Len(metrics) + 1 - i], "aggregated")]

ConvertChannelMetricsToExport(metrics) ==
    [i \in 1..Len(metrics) |-> ExportRecordOf(metrics[i], "aggregated")]

(***************************************************************************)
(* Raw records served by the two upstream APIs.                            *)
(***************************************************************************)
AdsRecord(date, campaignID, channel, clicks, impressions, cost, utmCampaign, utmSource, utmMedium) ==
    [Date |-> date, CampaignID |-> campaignID, Channel |-> channel, Clicks |-> clicks,
     Impressions |-> impressions, Cost |-> cost, UTMCampaign |-> utmCampaign,
     UTMSource |-> utmSource, UTMMedium |-> utmMedium]

CRMRecord(opportunityID, contactEmail, stage, amount, createdAt, utmCampaign, utmSource, utmMedium) ==
    [OpportunityID |-> opportunityID, ContactEmail |-> contactEmail, Stage |-> stage,
     Amount |-> amount, CreatedAt |-> createdAt, UTMCampaign |-> utmCampaign,
     UTMSource |-> utmSource, UTMMedium |-> utmMedium]

\* Records the upstream serves in the batch specification: two spellings of
\* one day (the second with negative clicks), a later day, and an empty date
\* with negative clicks.
AdsSamples ==
    {AdsRecord(t[1], "C1", "google_ads", t[2], 1000, 50, "summer", <<"google">>, <<"cpc">>) :
        t \in {<<"2025-08-01", 100>>,
               <<"2025/08/01", -1>>,
               <<"2025-08-02", 100>>,
               <<"", -1>>}}

\* An opportunity, a second one with the same id and a malformed email, and
\* one with blank id and unknown stage.
CRMSamples ==
    {CRMRecord(t[1], t[2], t[3], t[4], t[5], "summer", <<"google">>, <<"cpc">>) :
        t \in {<<"O1", "ana@example.com", "lead", 100, "2025-08-01T10:00:00Z">>,
               <<"O1", "not-an-email", "closed_won", 200, "2025-08-02 10:00:00">>,
               <<" ", "not-an-email", "bogus", -5, "">>}}

\* Field values of the single-record specification: every validator meets a
\* valid value, a blank one and (where it has one) an invalid one.
AdsCounts == {<<7, 5, 50>>, <<-1, 0, 50>>, <<0, -3, 0>>, <<-1, -3, -2>>}

UTMSamples == {<<" sale ", <<" google ">>, <<"cpc">>>>,
               <<"", <<>>, <<"cpc ">>>>,
               <<"sale", <<" ">>, <<>>>>,
               <<"\t", <<"google">>, <<"\t">>>>,
               <<"", <<>>, <<" ">>>>}

AdsUniverse ==
    {AdsRecord(date, campaignID, channel, n[1], n[2], n[3], u[1], u[2], u[3]) :
        date \in {"2025-08-01", "2025/08/01", " ", "2025-02-30"},
        campaignID \in {"C1", "\t"},
        channel \in {"tiktok_ads", "", " ", "Google_Ads"},
        n \in AdsCounts,
        u \in UTMSamples}

CRMContacts == {<<"ana@example.com", "closed_lost">>, <<"not-an-email", "lead">>,
                <<"", "Lead">>, <<"a@b.c", "">>, <<" ", " ">>}

CRMUniverse ==
    {CRMRecord(opportunityID, c[1], c[2], amount, createdAt, u[1], u[2], u[3]) :
        opportunityID \in {"O1", " "},
        c \in CRMContacts,
        amount \in {-5, 0, 200},
        createdAt \in {"2025-08-01T10:00:00Z", "2025/08/01 9:30:00", "", "2025-08-01"},
        u \in UTMSamples}

\* Records the upstream serves in the serving specification.  Two campaigns
\* share a day and a channel, one of them without clicks or cost; the first
\* campaign also runs on a second channel that day.  The records of the
\* second campaign come without a utm_medium.
ServeAdsFields ==
    <<<<"2025-08-01", "C1", "google_ads", 100, 1000, 50, "summer", <<"cpc">>>>,
      <<"2025-08-01", "C2", "google_ads", 0, 0, 0, "winter", <<>>>>,
      <<"2025-08-01", "C1", "facebook_ads", 40, 400, 10, "summer", <<"cpc">>>>>>

ServeAdsSamples ==
    [i \in 1..Len(ServeAdsFields) |->
        AdsRecord(ServeAdsFields[i][1], ServeAdsFields[i][2], ServeAdsFields[i][3],
                  ServeAdsFields[i][4], ServeAdsFields[i][5], ServeAdsFields[i][6],
                  ServeAdsFields[i][7], <<"google">>, ServeAdsFields[i][8])]

\* A lead and a won opportunity of the first campaign on the first day, a
\* lost one on the next day, and an open one of the second campaign.
ServeCRMFields ==
    <<<<"O1", "lead", 0, "2025-08-01T10:00:00Z", "summer", <<"cpc">>>>,
      <<"O2", "closed_won", 200, "2025-08-01T12:30:00Z", "summer", <<"cpc">>>>,
      <<"O3", "closed_lost", 0, "2025-08-02T09:00:00Z", "summer", <<"cpc">>>>,
      <<"O4", "opportunity", 0, "2025-08-01T23:59:59Z", "winter", <<>>>>>>

ServeCRMSamples ==
    [i \in 1..Len(ServeCRMFields) |->
        CRMRecord(ServeCRMFields[i][1], "ana@example.com", ServeCRMFields[i][2],
                  ServeCRMFields[i][3], ServeCRMFields[i][4], ServeCRMFields[i][5],
                  <<"google">>, ServeCRMFields[i][6])]

\* Records the upstream serves in the fallback specification: ads records
\* of one campaign and channel with an empty date, a date that does not
\* parse and a date; opportunities with an empty id, a blank id and an id.
FallbackAdsSamples ==
    {AdsRecord(t[1], "C1", "google_ads", t[2], 1000, 50, "summer", <<"google">>, <<"cpc">>) :
        t \in {<<"", 10>>, <<"yesterday", 20>>, <<"2025-08-01", 30>>}}

FallbackCRMSamples ==
    {CRMRecord(t[1], "ana@example.com", t[2], t[3], "2025-08-01T10:00:00Z",
               "summer", <<"google">>, <<"cpc">>) :
        t \in {<<"", "lead", 0>>, <<" ", "closed_won", 200>>, <<"O1", "lead", 0>>}}

\* Values of the from and to query parameters: absent, a day, not a date.
RangeSamples == {<<"", "">>, <<"2025-08-01", "2025-08-01">>, <<"2025-08-02", "">>,
                 <<"08/01/2025", "">>, <<"2025-08-01", "tomorrow">>}

ChannelSamples == {"", "google_ads"}

CampaignSamples == {"", "summer"}

\* Values of limit and offset: the defaults
PageSamples == {<<10, 0>>}

\* Values of the date query parameter of an export
ExportDates == {"", "yesterday", "2025-08-01", "2025-08-03"}

\* Values of the since query parameter: absent, a day, not a date.
SinceSamples == {"", "2025-08-02", "08/02/2025"}

\* Outcomes of the two fetches of one ingestion run.
FetchOutcomes == {"ok", "ads_error", "crm_error"}

(***************************************************************************)
(* config and client: the retry count, errors and the replies of a server. *)
(* An error is the chain of its messages, the outermost first; nil is the  *)
(* empty chain.                                                            *)
(***************************************************************************)
\* The largest RETRY_ATTEMPTS the environment sets
MaxAttempts == 4

\* strconv.Atoi: an optional sign and decimal digits; 0 and an error
\* otherwise
StrconvAtoi(s) ==
    IF Len(s) > 0 /\ Head(s) \in {"+", "-"}
    THEN IF Len(s) > 1 /\ AllIn(Tail(s), Digits)
         THEN [n |-> IF Head(s) = "-" THEN 0 - Atoi(Tail(s)) ELSE Atoi(Tail(s)), err |-> FALSE]
         ELSE [n |-> 0, err |-> TRUE]
    ELSE IF Len(s) > 0 /\ AllIn(s, Digits)
         THEN [n |-> Atoi(s), err |-> FALSE]
         ELSE [n |-> 0, err |-> TRUE]

getEnv(value, defaultValue) == IF value # "" THEN value ELSE defaultValue

\* A Load that takes the default when the conversion fails.
LoadDefaulting(retryAttempts) ==
    [RetryAttempts |-> IF StrconvAtoi(getEnv(retryAttempts, "3")).err THEN 3
                       ELSE StrconvAtoi(getEnv(retryAttempts, "3")).n]

\* config.Load, for the value of RETRY_ATTEMPTS in the environment; the
\* error of the conversion is dropped.
Load(retryAttempts) ==
    [RetryAttempts |-> StrconvAtoi(getEnv(retryAttempts, "3")).n]

NilError == <<>>

\* errors.New(msg), fmt.Errorf(msg)
NewError(msg) == <<msg>>

\* fmt.Errorf(prefix + "%w", err)
Errorf(prefix, err) ==
    IF err = NilError THEN <<prefix \o "%!w(<nil>)">>
    ELSE <<prefix \o err[1]>> \o err

\* What one request meets: no response at all, or a status and a body.
TransportError == [status |-> 0, body |-> "none"]

Reply(status, body) == [status |-> status, body |-> body]

\* What a GET meets: the body of a reply below 400 is read and decoded.
GetOutcomes ==
    {TransportError, Reply(500, "none"), Reply(404, "none"), Reply(304, "ok"),
     Reply(200, "unreadable"), Reply(200, "undecodable"), Reply(200, "ok")}

\* What a POST meets
PostOutcomes ==
    {TransportError, Reply(500, "none"), Reply(404, "none"), Reply(302, "none"),
     Reply(200, "none")}

\* Values of RETRY_ATTEMPTS: not set, not a number, and numbers
RetrySamples == {"", "three", "0", "-1"} \cup {Itoa(n) : n \in 1..MaxAttempts}

\* NewHTTPClient and NewExporter, and no call made yet
NewHTTPClient(cfg) ==
    [retryAttempts |-> cfg.RetryAttempts,
     pc       |-> "idle",
     query    |-> "",
     attempt  |-> 0,
     lastErr  |-> NilError,
     slept    |-> <<>>,
     sent     |-> <<>>,
     err      |-> NilError,
     records  |-> <<>>,
     posting  |-> 0,
     posted   |-> <<>>,
     accepted |-> <<>>]

(***************************************************************************)
(* State.                                                                  *)
(***************************************************************************)
VARIABLES
    upstreamAds,     \* the performance records the ads API serves
    upstreamCRM,     \* the opportunities the CRM API serves
    storeAds,        \* MemoryStore.adsRecords
    storeCRM,        \* MemoryStore.crmRecords
    lastIngest,      \* MemoryStore.lastIngest: a reading of the clock, 0 for time.Time{}
    adsResponse,     \* IngestData: adsResponse.External.Ads.Performance
    crmResponse,     \* IngestData: crmResponse.External.CRM.Opportunities
    adsNormalized,   \* NormalizeAdsRecords: normalized, as deduplication leaves it
    adsUnique,       \* NormalizeAdsRecords: the slice returned
    adsDropped,      \* deduplicateAdsRecords: the marked copies that were not kept
    crmNormalized,   \* NormalizeCRMRecords: normalized, as deduplication leaves it
    crmUnique,       \* NormalizeCRMRecords: the slice returned
    crmDropped,      \* deduplicateCRMRecords: the marked copies that were not kept
    qualityReport,   \* IngestData: qualityReport
    since,           \* IngestData: the since query parameter
    response,        \* the HTTP response of the last IngestData request
    served,          \* the last request for a report, metrics or an export
    inflight,        \* the requests that run concurrently: where each one stands,
                     \* its locals, and the run that wrote each batch of the store
    rerun,           \* history: the request before this one was a run that
                     \* succeeded, with the same since
    client           \* the HTTP client and the exporter: Config.RetryAttempts, the
                     \* call in progress and the locals of its loops

storeVars == <<storeAds, storeCRM, lastIngest>>

upstreamVars == <<upstreamAds, upstreamCRM>>

runVars == <<adsResponse, crmResponse, adsNormalized, adsUnique, adsDropped,
             crmNormalized, crmUnique, crmDropped, qualityReport, since, response>>

vars == <<upstreamAds, upstreamCRM, storeAds, storeCRM, lastIngest, adsResponse, crmResponse,
          adsNormalized, adsUnique, adsDropped, crmNormalized, crmUnique, crmDropped,
          qualityReport, since, response, served, inflight, rerun, client>>

NoResponse == [status |-> 0, error |-> "", AdsRecords |-> 0, CRMRecords |-> 0,
               QualitySummary |-> GenerateQualityReport(<<>>, <<>>).Summary]

\* No report, metrics or export has been asked for.
NoRequest == [op |-> "none", status |-> 0]

\* No request is in flight, and no run has written to the store.
NoneInFlight ==
    [run    |-> [r \in 1..MaxRuns |-> [pc |-> "idle", ads |-> <<>>, crm |-> <<>>]],
     reader |-> [pc |-> "idle", ads |-> <<>>, crm |-> <<>>, adsRun |-> 0, crmRun |-> 0],
     adsRun |-> 0,
     crmRun |-> 0]

\* The locals of a handler that has not reached them.
NoRun ==
    /\ adsResponse = <<>> /\ crmResponse = <<>>
    /\ adsNormalized = <<>> /\ adsUnique = <<>> /\ adsDropped = <<>>
    /\ crmNormalized = <<>> /\ crmUnique = <<>> /\ crmDropped = <<>>
    /\ qualityReport = GenerateQualityReport(<<>>, <<>>)

\* NewMemoryStore, and no request served yet
InitStore ==
    /\ storeAds = <<>> /\ storeCRM = <<>> /\ lastIngest = 0
    /\ NoRun
    /\ since = ""
    /\ response = NoResponse
    /\ served = NoRequest
    /\ inflight = NoneInFlight
    /\ rerun = FALSE

\* The batches of at most n records of S
Batches(S, n) == UNION {[1..k -> S] : k \in 0..n}

\* The upstream serves any two batches of sample records, of MaxRecords
\* records in all.
Init ==
    /\ upstreamAds \in Batches(AdsSamples, MaxRecords)
    /\ upstreamCRM \in Batches(CRMSamples, MaxRecords - Len(upstreamAds))
    /\ InitStore
    /\ client = NewHTTPClient(Load(""))

\* The upstream serves a single record, of any combination of field values.
InitRecord ==
    /\ \/ upstreamAds \in {<<r>> : r \in AdsUniverse} /\ upstreamCRM = <<>>
       \/ upstreamAds = <<>> /\ upstreamCRM \in {<<r>> : r \in CRMUniverse}
    /\ InitStore
    /\ client = NewHTTPClient(Load(""))

(***************************************************************************)
(* Actions.                                                                *)
(***************************************************************************)
\* A failure that also empties the store.
IngestFailsClearing(status, error, query, ads, crm) ==
    /\ response' = [NoResponse EXCEPT !.status = status, !.error = error]
    /\ since' = query
    /\ adsResponse' = ads /\ crmResponse' = crm
    /\ adsNormalized' = <<>> /\ adsUnique' = <<>> /\ adsDropped' = <<>>
    /\ crmNormalized' = <<>> /\ crmUnique' = <<>> /\ crmDropped' = <<>>
    /\ qualityReport' = GenerateQualityReport(<<>>, <<>>)
    /\ storeAds' = <<>> /\ storeCRM' = <<>> /\ lastIngest' = 0
    /\ rerun' = FALSE
    /\ UNCHANGED <<upstreamVars, served, inflight>>

\* A request that returns before it normalizes anything.
IngestFails(status, error, query, ads, crm) ==
    /\ response' = [NoResponse EXCEPT !.status = status, !.error = error]
    /\ since' = query
    /\ adsResponse' = ads /\ crmResponse' = crm
    /\ adsNormalized' = <<>> /\ adsUnique' = <<>> /\ adsDropped' = <<>>
    /\ crmNormalized' = <<>> /\ crmUnique' = <<>> /\ crmDropped' = <<>>
    /\ qualityReport' = GenerateQualityReport(<<>>, <<>>)
    /\ rerun' = FALSE
    /\ UNCHANGED <<storeVars, upstreamVars, served, inflight>>

\* The since filter of IngestData on the two normalized batches.
SinceFilterAds(records, sinceTime) ==
    IF IsZero(sinceTime) THEN records
    ELSE SelectSeq(records, LAMBDA r : r.Date = sinceTime \/ TimeAfter(r.Date, sinceTime))

SinceFilterCRM(records, sinceTime) ==
    IF IsZero(sinceTime) THEN records
    ELSE SelectSeq(records, LAMBDA r : DayOf(r.CreatedAt) = sinceTime
                                       \/ TimeAfter(DayOf(r.CreatedAt), sinceTime))

\* A run that adds its batches to those of the store.
IngestStoresAppending(query, ads, crm, normalizedAds, normalizedCRM, report) ==
    /\ adsResponse' = upstreamAds
    /\ crmResponse' = upstreamCRM
    /\ adsNormalized' = ads.records
    /\ adsUnique' = ads.unique
    /\ adsDropped' = ads.dropped
    /\ crmNormalized' = crm.records
    /\ crmUnique' = crm.unique
    /\ crmDropped' = crm.dropped
    /\ qualityReport' = report
    /\ storeAds' = storeAds \o normalizedAds
    /\ storeCRM' = storeCRM \o normalizedCRM
    /\ since' = query
    /\ response' = [status |-> 200, error |-> "",
                    AdsRecords |-> Len(normalizedAds),
                    CRMRecords |-> Len(normalizedCRM),
                    QualitySummary |-> report.Summary]
    /\ \E now \in 1..MaxTime : now >= lastIngest /\ lastIngest' = now
    /\ rerun' = (response.status = 200 /\ since = query)
    /\ UNCHANGED <<upstreamVars, served, inflight>>

\* The tail of a run: the report is generated from the filtered batches,
\* which are stored, and the response tells their sizes.  StoreAdsRecords
\* reads the clock (now), which does not go back.
IngestStores(query, ads, crm, normalizedAds, normalizedCRM, report) ==
    /\ adsResponse' = upstreamAds
    /\ crmResponse' = upstreamCRM
    /\ adsNormalized' = ads.records
    /\ adsUnique' = ads.unique
    /\ adsDropped' = ads.dropped
    /\ crmNormalized' = crm.records
    /\ crmUnique' = crm.unique
    /\ crmDropped' = crm.dropped
    /\ qualityReport' = report
    /\ storeAds' = normalizedAds
    /\ storeCRM' = normalizedCRM
    /\ since' = query
    /\ response' = [status |-> 200, error |-> "",
                    AdsRecords |-> Len(normalizedAds),
                    CRMRecords |-> Len(normalizedCRM),
                    QualitySummary |-> report.Summary]
    /\ \E now \in 1..MaxTime : now >= lastIngest /\ lastIngest' = now
    /\ rerun' = (response.status = 200 /\ since = query)
    /\ UNCHANGED <<upstreamVars, served, inflight>>

IngestFiltered(query, ads, crm, normalizedAds, normalizedCRM) ==
    IngestStores(query, ads, crm, normalizedAds, normalizedCRM,
                 GenerateQualityReport(normalizedAds, normalizedCRM))

\* The run once both fetches have succeeded
IngestNormalized(query, sinceTime, ads, crm) ==
    IngestFiltered(query, ads, crm,
                   SinceFilterAds(ads.unique, sinceTime),
                   SinceFilterCRM(crm.unique, sinceTime))

\* IngestData once the fetches have returned; fetch tells which of the two
\* failed.
IngestResponds(query, fetch) ==
    IF query # "" /\ ~ParseDate(query, "-").ok
    THEN IngestFails(400, "Invalid date format, use YYYY-MM-DD", query, <<>>, <<>>)
    ELSE IF fetch = "ads_error"
    THEN IngestFails(500, "Failed to fetch ads data", query, <<>>, <<>>)
    ELSE IF fetch = "crm_error"
    THEN IngestFails(500, "Failed to fetch CRM data", query, upstreamAds, <<>>)
    ELSE IngestNormalized(query,
                          IF query = "" THEN ZeroTime ELSE ParseDate(query, "-").t,
                          NormalizeAdsRecords(upstreamAds),
                          NormalizeCRMRecords(upstreamCRM))

\* POST /ingest/run?since=..., the two fetches taken as one step each
IngestData(query, fetch) ==
    /\ IngestResponds(query, fetch)
    /\ UNCHANGED client

Next == \E query \in SinceSamples, fetch \in FetchOutcomes : IngestData(query, fetch)

\* The upstream serves batches of the fallback records, fewer than
\* MaxRecords of each kind.
InitFallback ==
    /\ upstreamAds \in Batches(FallbackAdsSamples, MaxRecords - 1)
    /\ upstreamCRM \in Batches(FallbackCRMSamples, MaxRecords - 1)
    /\ InitStore
    /\ client = NewHTTPClient(Load(""))

\* Ingestion runs over records that take the fallbacks.
SpecFallback == InitFallback /\ [][Next]_vars

\* Ingestion runs over batches of sample records.
Spec == Init /\ [][Next]_vars

\* Ingestion runs over one record of any shape.
SpecRecord == InitRecord /\ [][Next]_vars

(***************************************************************************)
(* The store's readers and the handlers that serve from it.  Each handler  *)
(* reads the store and answers; it writes nothing the ingestion reads.     *)
(***************************************************************************)
ingestVars == <<upstreamVars, storeVars, runVars, inflight, rerun, client>>

GetAdsRecords == storeAds

GetCRMRecords == storeCRM

InRange(day, from, to) ==
    /\ day = from \/ TimeAfter(day, from)
    /\ day = to \/ TimeBefore(day, to)

GetAdsRecordsByDateRange(from, to) ==
    SelectSeq(storeAds, LAMBDA r : InRange(r.Date, from, to))

GetCRMRecordsByDateRange(from, to) ==
    SelectSeq(storeCRM, LAMBDA r : InRange(DayOf(r.CreatedAt), from, to))

\* c.JSON(status, gin.H{"error": error})
Refused(op, status, error) == [op |-> op, status |-> status, error |-> error]

\* time.Parse("2006-01-02", s) of a query parameter that may be absent
QueryFails(s) == s # "" /\ ~ParseDate(s, "-").ok

QueryTime(s) == IF s = "" THEN ZeroTime ELSE ParseDate(s, "-").t

\* GET /metrics/quality
GetDataQualityReport ==
    /\ served' = IF Len(GetAdsRecords) = 0 /\ Len(GetCRMRecords) = 0
                 THEN Refused("quality", 404,
                              "No data available for quality analysis. Please run ingestion first.")
                 ELSE [op |-> "quality", status |-> 200,
                       adsRecords |-> GetAdsRecords, crmRecords |-> GetCRMRecords,
                       qualityReport |-> GenerateQualityReport(GetAdsRecords, GetCRMRecords)]
    /\ UNCHANGED ingestVars

\* models.MetricsResponse over metrics[start:end], for a positive limit and
\* an offset that is not negative
Paginate(metrics, limit, offset) ==
    [Data    |-> SubSeq(metrics, Min(offset, Len(metrics)) + 1, Min(offset + limit, Len(metrics))),
     Total   |-> Len(metrics),
     Page    |-> (offset \div limit) + 1,
     Limit   |-> limit,
     HasMore |-> Min(offset + limit, Len(metrics)) < Len(metrics)]

\* The answer of the two metrics handlers once the records are read.  The
\* handlers call CalculateChannelMetricsWithQuality and
\* CalculateFunnelMetricsWithQuality, which are not part of the sources at
\* hand: the rows are those of CalculateChannelMetrics and
\* CalculateFunnelMetrics, without the three quality columns.
MetricsServed(op, adsRecords, crmRecords, filter, Calculate(_, _, _), page) ==
    \E metrics \in Calculate(adsRecords, crmRecords, filter) :
        served' = [op |-> op, status |-> 200,
                   adsRecords |-> adsRecords, crmRecords |-> crmRecords,
                   filter |-> filter, metrics |-> metrics,
                   response |-> Paginate(metrics, page[1], page[2])]

MetricsInRange(op, fromTime, toTime, filter, Calculate(_, _, _), page) ==
    IF ~IsZero(fromTime) /\ ~IsZero(toTime)
    THEN MetricsServed(op, GetAdsRecordsByDateRange(fromTime, toTime),
                       GetCRMRecordsByDateRange(fromTime, toTime), filter, Calculate, page)
    ELSE MetricsServed(op, GetAdsRecords, GetCRMRecords, filter, Calculate, page)

MetricsHandler(op, from, to, filter, Calculate(_, _, _), page) ==
    IF QueryFails(from)
    THEN served' = Refused(op, 400, "Invalid from date format, use YYYY-MM-DD")
    ELSE IF QueryFails(to)
    THEN served' = Refused(op, 400, "Invalid to date format, use YYYY-MM-DD")
    ELSE MetricsInRange(op, QueryTime(from), QueryTime(to), filter, Calculate, page)

\* GET /metrics/channel
GetChannelMetrics(from, to, channel, page) ==
    /\ MetricsHandler("channel", from, to, channel, CalculateChannelMetrics, page)
    /\ UNCHANGED ingestVars

\* GET /metrics/funnel
GetFunnelMetrics(from, to, utmCampaign, page) ==
    /\ MetricsHandler("funnel", from, to, utmCampaign, CalculateFunnelMetrics, page)
    /\ UNCHANGED ingestVars

\* ExportDailyData posts the records in order and stops at the first post
\* that fails: posted is the number of records the sink took.
ExportServed(dateStr, adsRecords, crmRecords, channelMetrics, exportRecords) ==
    \E posted \in 0..Len(exportRecords) :
        served' = [op |-> "export",
                   status |-> IF posted < Len(exportRecords) THEN 500 ELSE 200,
                   error |-> IF posted < Len(exportRecords)
                             THEN "Failed to export data" ELSE "",
                   date |-> dateStr,
                   adsRecords |-> adsRecords, crmRecords |-> crmRecords,
                   channelMetrics |-> channelMetrics,
                   exportRecords |-> exportRecords,
                   posted |-> posted]

ExportOf(dateStr, adsRecords, crmRecords) ==
    IF Len(adsRecords) = 0
    THEN served' = Refused("export", 404, "No data found for the specified date")
    ELSE \E channelMetrics \in CalculateChannelMetrics(adsRecords, crmRecords, "") :
            ExportServed(dateStr, adsRecords, crmRecords, channelMetrics,
                         ConvertChannelMetricsToExport(channelMetrics))

\* POST /export/run?date=...; config.Load never leaves SinkURL empty.
ExportData(dateStr) ==
    /\ IF dateStr = ""
       THEN served' = Refused("export", 400, "date parameter is required (YYYY-MM-DD)")
       ELSE IF QueryFails(dateStr)
       THEN served' = Refused("export", 400, "Invalid date format, use YYYY-MM-DD")
       ELSE ExportOf(dateStr,
                     GetAdsRecordsByDateRange(QueryTime(dateStr), QueryTime(dateStr)),
                     GetCRMRecordsByDateRange(QueryTime(dateStr), QueryTime(dateStr)))
    /\ UNCHANGED ingestVars

\* The batches of at most n records of the list, in the order of the list
SubBatches(list, n) ==
    {[i \in 1..Len(p) |-> list[p[i]]] :
        p \in {q \in Batches(1..Len(list), n) : \A i \in 1..(Len(q) - 1) : q[i] < q[i + 1]}}

\* The upstream serves some of the serving records, MaxRecords records in
\* all.
InitServe ==
    /\ upstreamAds \in SubBatches(ServeAdsSamples, MaxRecords)
    /\ upstreamCRM \in SubBatches(ServeCRMSamples, MaxRecords - Len(upstreamAds))
    /\ InitStore
    /\ client = NewHTTPClient(Load(""))

NextServe ==
    \/ \E fetch \in FetchOutcomes : IngestData("", fetch)
    \/ GetDataQualityReport
    \/ \E range \in RangeSamples, channel \in ChannelSamples, page \in PageSamples :
          GetChannelMetrics(range[1], range[2], channel, page)
    \/ \E range \in RangeSamples, utmCampaign \in CampaignSamples, page \in PageSamples :
          GetFunnelMetrics(range[1], range[2], utmCampaign, page)
    \/ \E dateStr \in ExportDates : ExportData(dateStr)

\* Ingestion runs of everything the upstream has, and requests for reports,
\* metrics and exports, one at a time.
SpecServe == InitServe /\ [][NextServe]_vars

(***************************************************************************)
(* Concurrent requests.  gin serves every request on a goroutine of its    *)
(* own, and the store takes its lock once per call: a step below is one    *)
(* call of the store, or the part of a handler that touches no shared      *)
(* state.  Run r is an IngestData request, the reader a                    *)
(* GetDataQualityReport request; the metrics and export handlers read the  *)
(* store by the same two calls.                                            *)
(***************************************************************************)
\* IngestData up to the calls of the store: the fetches, the normalization
\* and the since filter.  A run that fails returns here.
RunNormalizes(r, query, fetch) ==
    /\ inflight.run[r].pc = "idle"
    /\ inflight' =
          IF QueryFails(query) \/ fetch # "ok"
          THEN [inflight EXCEPT !.run[r].pc = "failed"]
          ELSE [inflight EXCEPT
                   !.run[r] = [pc  |-> "normalized",
                               ads |-> SinceFilterAds(NormalizeAdsRecords(upstreamAds).unique,
                                                      QueryTime(query)),
                               crm |-> SinceFilterCRM(NormalizeCRMRecords(upstreamCRM).unique,
                                                      QueryTime(query))]]
    /\ UNCHANGED <<upstreamVars, storeVars, runVars, served, rerun, client>>

\* h.store.StoreAdsRecords(normalizedAds)
StoreAdsRecords(r) ==
    /\ inflight.run[r].pc = "normalized"
    /\ storeAds' = inflight.run[r].ads
    /\ \E now \in 1..MaxTime : now >= lastIngest /\ lastIngest' = now
    /\ inflight' = [inflight EXCEPT !.run[r].pc = "adsStored", !.adsRun = r]
    /\ UNCHANGED <<upstreamVars, storeCRM, runVars, served, rerun, client>>

\* h.store.StoreCRMRecords(normalizedCRM), and the response
StoreCRMRecords(r) ==
    /\ inflight.run[r].pc = "adsStored"
    /\ storeCRM' = inflight.run[r].crm
    /\ inflight' = [inflight EXCEPT !.run[r].pc = "done", !.crmRun = r]
    /\ UNCHANGED <<upstreamVars, storeAds, lastIngest, runVars, served, rerun, client>>

\* adsRecords := h.store.GetAdsRecords()
ReaderGetsAds ==
    /\ inflight.reader.pc = "idle"
    /\ inflight' = [inflight EXCEPT !.reader = [pc |-> "adsRead", ads |-> GetAdsRecords,
                                                crm |-> <<>>, adsRun |-> inflight.adsRun,
                                                crmRun |-> 0]]
    /\ UNCHANGED <<upstreamVars, storeVars, runVars, served, rerun, client>>

\* crmRecords := h.store.GetCRMRecords()
ReaderGetsCRM ==
    /\ inflight.reader.pc = "adsRead"
    /\ inflight' = [inflight EXCEPT !.reader.pc = "crmRead", !.reader.crm = GetCRMRecords,
                                    !.reader.crmRun = inflight.crmRun]
    /\ UNCHANGED <<upstreamVars, storeVars, runVars, served, rerun, client>>

\* the rest of GetDataQualityReport, over the two slices it holds
ReaderAnswers ==
    /\ inflight.reader.pc = "crmRead"
    /\ served' = IF Len(inflight.reader.ads) = 0 /\ Len(inflight.reader.crm) = 0
                 THEN Refused("quality", 404,
                              "No data available for quality analysis. Please run ingestion first.")
                 ELSE [op |-> "quality", status |-> 200,
                       adsRecords |-> inflight.reader.ads, crmRecords |-> inflight.reader.crm,
                       qualityReport |-> GenerateQualityReport(inflight.reader.ads,
                                                               inflight.reader.crm)]
    /\ inflight' = [inflight EXCEPT !.reader.pc = "idle"]
    /\ UNCHANGED <<upstreamVars, storeVars, runVars, rerun, client>>

\* The upstream serves at most MaxRecords - 2 serving records of each kind.
InitConcurrent ==
    /\ upstreamAds \in SubBatches(ServeAdsSamples, MaxRecords - 2)
    /\ upstreamCRM \in SubBatches(ServeCRMSamples, MaxRecords - 2)
    /\ InitStore
    /\ client = NewHTTPClient(Load(""))

NextConcurrent ==
    \/ \E r \in 1..MaxRuns, query \in SinceSamples, fetch \in FetchOutcomes :
          RunNormalizes(r, query, fetch)
    \/ \E r \in 1..MaxRuns : StoreAdsRecords(r)
    \/ \E r \in 1..MaxRuns : StoreCRMRecords(r)
    \/ ReaderGetsAds
    \/ ReaderGetsCRM
    \/ ReaderAnswers

\* MaxRuns ingestion requests and requests for the quality report, one
\* after the other, interleaved at the calls of the store.
SpecConcurrent == InitConcurrent /\ [][NextConcurrent]_vars

(***************************************************************************)
(* The HTTP client and the exporter, one request at a time.  A step is one *)
(* turn of a retry loop (the sleep, the request and what is made of the    *)
(* reply), or the part of a handler between two calls of the client.       *)
(* client.slept lists the backoffs of the call in progress in seconds,     *)
(* client.sent what each of its requests met; client.posted lists the      *)
(* record of every POST of the export in progress, client.accepted the     *)
(* records the sink answered with a 2xx.                                   *)
(***************************************************************************)
clientFrame == <<upstreamVars, storeVars, runVars, served, inflight, rerun>>

\* var lastErr error; attempt := 0
Called(c, pc) ==
    [c EXCEPT !.pc = pc, !.attempt = 0, !.lastErr = NilError, !.slept = <<>>,
              !.sent = <<>>, !.err = NilError]

Returned(pc) ==
    CASE pc = "adsLoop" -> "adsReturned"
      [] pc = "crmLoop" -> "crmReturned"
      [] pc = "postLoop" -> "postReturned"

\* backoffTime, in seconds
Backoff(attempt) == attempt * attempt

\* if attempt > 0 { time.Sleep(backoffTime) }
Slept(c) == IF c.attempt > 0 THEN Append(c.slept, Backoff(c.attempt)) ELSE c.slept

\* lastErr = err; continue
Continue(c, outcome, err) ==
    [c EXCEPT !.slept = Slept(c), !.sent = Append(@, outcome), !.lastErr = err,
              !.attempt = @ + 1]

\* return err
Return(c, outcome, err) ==
    [c EXCEPT !.slept = Slept(c), !.sent = Append(@, outcome), !.err = err,
              !.pc = Returned(@)]

\* One turn of the loop of retryRequest that retries a client error too.
GetAttemptRetrying4xx(c, outcome) ==
    IF outcome = TransportError \/ outcome.status >= 400
    THEN Continue(c, outcome, NewError("request failed"))
    ELSE IF outcome.body # "ok"
    THEN Continue(c, outcome, NewError("unexpected end of JSON input"))
    ELSE Return(c, outcome, NilError)

\* One turn of the loop of retryRequest
GetAttempt(c, outcome) ==
    IF outcome = TransportError
    THEN Continue(c, outcome, NewError("transport error"))
    ELSE IF outcome.status >= 500
    THEN Continue(c, outcome, NewError("server error: " \o Itoa(outcome.status)))
    ELSE IF outcome.status >= 400
    THEN Return(c, outcome, NewError("client error: " \o Itoa(outcome.status)))
    ELSE IF outcome.body = "unreadable"
    THEN Continue(c, outcome, NewError("unexpected EOF"))
    ELSE IF outcome.body = "undecodable"
    THEN Continue(c, outcome, NewError("unexpected end of JSON input"))
    ELSE Return(c, outcome, NilError)

\* One turn of the loop of retryPostRequest, for the record being posted
PostAttempt(c, outcome) ==
    IF outcome = TransportError
    THEN Continue([c EXCEPT !.posted = Append(@, c.posting)], outcome,
                  NewError("transport error"))
    ELSE IF outcome.status >= 200 /\ outcome.status < 300
    THEN Return([c EXCEPT !.posted = Append(@, c.posting),
                          !.accepted = Append(@, c.records[c.posting])],
                outcome, NilError)
    ELSE IF outcome.status >= 400 /\ outcome.status < 500
    THEN Return([c EXCEPT !.posted = Append(@, c.posting)], outcome,
                NewError("client error: " \o Itoa(outcome.status)))
    ELSE Continue([c EXCEPT !.posted = Append(@, c.posting)], outcome,
                  NewError("server error: " \o Itoa(outcome.status)))

\* FetchAdsData and FetchCRMData: what they return for the error of
\* retryRequest
FetchAdsData(err) ==
    IF err # NilError THEN Errorf("failed to fetch ads data: ", err) ELSE NilError

FetchCRMData(err) ==
    IF err # NilError THEN Errorf("failed to fetch CRM data: ", err) ELSE NilError

\* POST /ingest/run?since=... up to the call of FetchAdsData
IngestBegins(query) ==
    /\ client.pc = "idle"
    /\ ~QueryFails(query)
    /\ client' = Called([client EXCEPT !.query = query], "adsLoop")
    /\ UNCHANGED clientFrame

\* retryRequest: a turn of the loop
Get(outcome) ==
    /\ client.pc \in {"adsLoop", "crmLoop"}
    /\ client.attempt < client.retryAttempts
    /\ client' = GetAttempt(client, outcome)
    /\ UNCHANGED clientFrame

\* retryRequest: the loop is left
GetLoopEnds ==
    /\ client.pc \in {"adsLoop", "crmLoop"}
    /\ ~(client.attempt < client.retryAttempts)
    /\ client' = [client EXCEPT
                     !.err = Errorf("all retry attempts failed, last error: ", client.lastErr),
                     !.pc = Returned(@)]
    /\ UNCHANGED clientFrame

\* IngestData between the two fetches
FetchCRMBegins ==
    /\ client.pc = "adsReturned"
    /\ FetchAdsData(client.err) = NilError
    /\ client' = Called(client, "crmLoop")
    /\ UNCHANGED clientFrame

\* Which fetch failed, for the handler
FetchOf(c) ==
    IF c.pc = "adsReturned" THEN "ads_error"
    ELSE IF FetchCRMData(c.err) # NilError THEN "crm_error"
    ELSE "ok"

\* IngestData from the return of the fetch that failed, or of the second;
\* the locals of the fetches are gone.
IngestEnds ==
    /\ \/ client.pc = "adsReturned" /\ FetchAdsData(client.err) # NilError
       \/ client.pc = "crmReturned"
    /\ IngestResponds(client.query, FetchOf(client))
    /\ client' = NewHTTPClient([RetryAttempts |-> client.retryAttempts])

\* ExportDailyData up to the first call of PostExportData.  createSignature
\* fails only when json.Marshal does, which it does not for an ExportRecord
\* of finite numbers.
ExportDailyData(records) ==
    /\ client.pc = "idle"
    /\ client' = IF Len(records) = 0
                 THEN [Called(client, "exportReturned") EXCEPT
                          !.records = records, !.posting = 0, !.posted = <<>>,
                          !.accepted = <<>>, !.err = NewError("no records to export")]
                 ELSE [Called(client, "postLoop") EXCEPT
                          !.records = records, !.posting = 1, !.posted = <<>>,
                          !.accepted = <<>>]
    /\ UNCHANGED clientFrame

\* retryPostRequest: a turn of the loop
Post(outcome) ==
    /\ client.pc = "postLoop"
    /\ client.attempt < client.retryAttempts
    /\ client' = PostAttempt(client, outcome)
    /\ UNCHANGED clientFrame

\* retryPostRequest: the loop is left
PostLoopEnds ==
    /\ client.pc = "postLoop"
    /\ ~(client.attempt < client.retryAttempts)
    /\ client' = [client EXCEPT
                     !.err = Errorf("export failed after retries: ", client.lastErr),
                     !.pc = Returned(@)]
    /\ UNCHANGED clientFrame

\* ExportDailyData goes on to every record.
ExportNextIgnoringError(c) ==
    IF c.posting < Len(c.records)
    THEN [Called(c, "postLoop") EXCEPT !.posting = @ + 1]
    ELSE [c EXCEPT !.pc = "exportReturned"]

\* ExportDailyData from the return of PostExportData: the error, the next
\* record, or the end of the list
ExportNext(c) ==
    IF c.err # NilError
    THEN [c EXCEPT !.pc = "exportReturned",
                   !.err = Errorf("failed to export record: ", c.err)]
    ELSE IF c.posting < Len(c.records)
    THEN [Called(c, "postLoop") EXCEPT !.posting = @ + 1]
    ELSE [c EXCEPT !.pc = "exportReturned"]

ExportGoesOn ==
    /\ client.pc = "postReturned"
    /\ client' = ExportNext(client)
    /\ UNCHANGED clientFrame

\* The caller of ExportDailyData has its error, and the locals are gone.
ExportEnds ==
    /\ client.pc = "exportReturned"
    /\ client' = NewHTTPClient([RetryAttempts |-> client.retryAttempts])
    /\ UNCHANGED clientFrame

\* Values of the since query parameter: absent
ClientSinceSamples == {""}

\* The records of an export: the channel rows of the serving records
ExportSamples ==
    ConvertChannelMetricsToExport(
        CHOOSE rows \in CalculateChannelMetrics(NormalizeAdsRecords(ServeAdsSamples).unique,
                                                NormalizeCRMRecords(ServeCRMSamples).unique,
                                                "") : TRUE)

\* The upstream serves one record of each kind, and RETRY_ATTEMPTS is any
\* of the samples.
InitClient ==
    /\ upstreamAds = SubSeq(ServeAdsSamples, 1, 1)
    /\ upstreamCRM = SubSeq(ServeCRMSamples, 1, 1)
    /\ InitStore
    /\ client \in {NewHTTPClient(Load(retryAttempts)) : retryAttempts \in RetrySamples}

NextClient ==
    \/ \E query \in ClientSinceSamples : IngestBegins(query)
    \/ \E outcome \in GetOutcomes : Get(outcome)
    \/ GetLoopEnds
    \/ FetchCRMBegins
    \/ IngestEnds
    \/ \E records \in SubBatches(ExportSamples, MaxRecords) : ExportDailyData(records)
    \/ \E outcome \in PostOutcomes : Post(outcome)
    \/ PostLoopEnds
    \/ ExportGoesOn
    \/ ExportEnds

\* Ingestion runs and exports, one at a time, at the steps of the client.
SpecClient == InitClient /\ [][NextClient]_vars

\* The goroutine of a request keeps running, and a request of the client
\* returns (http.Client.Timeout is cfg.HTTPTimeout): a loop that can take a
\* turn or be left does so in the end.
FairSpecClient ==
    /\ SpecClient
    /\ WF_vars(\E outcome \in GetOutcomes : Get(outcome))
    /\ WF_vars(GetLoopEnds)

(***************************************************************************)
(* Properties.                                                             *)
(***************************************************************************)
Done == response.status = 200

\* The normalized records of the last run as they were when the normalizer's
\* loop ended, before deduplication.
AdsBeforeDedup == [i \in 1..Len(adsResponse) |-> NormalizeAdsRecord(adsResponse[i], i - 1)]

CRMBeforeDedup == [i \in 1..Len(crmResponse) |-> NormalizeCRMRecord(crmResponse[i], i - 1)]

\* The business keys: date|campaign_id|channel and opportunity_id
AdsBusinessKey(record) ==
    FormatDate(record.Date) \o "|" \o record.CampaignID \o "|" \o record.Channel

CRMKey(record) == record.OpportunityID

\* The indices of the records that are the earliest for their business key
FirstOfKey(records, Key(_)) ==
    {i \in 1..Len(records) : \A j \in 1..(i - 1) : Key(records[j]) # Key(records[i])}

\* The subsequence of records at the indices idx, in order
SubsequenceAt(records, idx) ==
    [k \in 1..Cardinality(idx) |->
        records[CHOOSE i \in idx : Cardinality({j \in idx : j < i}) = k - 1]]

KeysOf(records, Key(_)) == {Key(records[i]) : i \in 1..Len(records)}

NoSharedKey(records, Key(_)) ==
    \A i, j \in 1..Len(records) : Key(records[i]) = Key(records[j]) => i = j

RecordIDs(records) == {records[i].Quality.RecordID : i \in 1..Len(records)}

\* C1: every record the two normalizers return has Quality.IsValid true
\* exactly when its Quality.ErrorCount is 0.
C1_ValidIffNoErrors ==
    /\ \A i \in 1..Len(adsUnique) :
          adsUnique[i].Quality.IsValid <=> (adsUnique[i].Quality.ErrorCount = 0)
    /\ \A i \in 1..Len(crmUnique) :
          crmUnique[i].Quality.IsValid <=> (crmUnique[i].Quality.ErrorCount = 0)

\* A run returned an ads record with errors and a CRM record without any.
C1_Witness ==
    /\ Done
    /\ \E i \in 1..Len(adsUnique) :
          adsUnique[i].Quality.ErrorCount > 0 /\ ~adsUnique[i].Quality.IsValid
    /\ \E i \in 1..Len(crmUnique) :
          crmUnique[i].Quality.ErrorCount = 0 /\ crmUnique[i].Quality.IsValid

\* C2: deduplication is first-occurrence-wins and stable: the output is the
\* subsequence of the input records that are the earliest for their business
\* key, in input order; no two output records share a key and every key of
\* the input is a key of the output.
C2_FirstOccurrenceWins ==
    Done =>
        /\ adsUnique = SubsequenceAt(AdsBeforeDedup, FirstOfKey(AdsBeforeDedup, AdsBusinessKey))
        /\ crmUnique = SubsequenceAt(CRMBeforeDedup, FirstOfKey(CRMBeforeDedup, CRMKey))
        /\ NoSharedKey(adsUnique, AdsBusinessKey) /\ NoSharedKey(crmUnique, CRMKey)
        /\ KeysOf(adsUnique, AdsBusinessKey) = KeysOf(AdsBeforeDedup, AdsBusinessKey)
        /\ KeysOf(crmUnique, CRMKey) = KeysOf(CRMBeforeDedup, CRMKey)

\* A run dropped the ads record that stood between the two it kept.
C2_Witness ==
    /\ Done
    /\ Len(adsResponse) = 3 /\ Len(adsUnique) = 2
    /\ AdsBusinessKey(AdsBeforeDedup[2]) = AdsBusinessKey(AdsBeforeDedup[1])
    /\ adsUnique = <<AdsBeforeDedup[1], AdsBeforeDedup[3]>>

\* C3: deduplication is idempotent: the deduplicator applied to its own
\* output returns the same sequence of records.
C3_DedupIdempotent ==
    /\ deduplicateAdsRecords(adsUnique).unique = adsUnique
    /\ deduplicateCRMRecords(crmUnique).unique = crmUnique

\* A run whose deduplication dropped two ads records of one key.
C3_Witness ==
    /\ Done
    /\ Len(adsResponse) = 3 /\ Len(adsUnique) = 1 /\ Len(adsDropped) = 2

\* C4: dropping a duplicate leaves every surviving record untouched: the
\* Quality of each record of the output is the one it had before
\* deduplication, and no returned record carries a "duplicate" entry.
C4_SurvivorsUntouched ==
    /\ \A k \in 1..Len(adsUnique) :
          /\ "duplicate" \notin DOMAIN adsUnique[k].Quality.FieldErrors
          /\ \E i \in 1..Len(adsResponse) :
                /\ AdsBeforeDedup[i].Quality.RecordID = adsUnique[k].Quality.RecordID
                /\ AdsBeforeDedup[i].Quality = adsUnique[k].Quality
    /\ \A k \in 1..Len(crmUnique) :
          /\ "duplicate" \notin DOMAIN crmUnique[k].Quality.FieldErrors
          /\ \E i \in 1..Len(crmResponse) :
                /\ CRMBeforeDedup[i].Quality.RecordID = crmUnique[k].Quality.RecordID
                /\ CRMBeforeDedup[i].Quality = crmUnique[k].Quality

\* A valid ads record survived the drop of an invalid duplicate of it, and
\* the dropped copy was marked.
C4_Witness ==
    /\ Done
    /\ Len(adsDropped) = 1 /\ Len(adsUnique) = 1
    /\ adsUnique[1].Quality.IsValid
    /\ adsDropped[1].Quality.ErrorCount = 2
    /\ "duplicate" \in DOMAIN adsDropped[1].Quality.FieldErrors

C6_DroppedAreReported ==
    Done =>
        /\ \A i \in 1..Len(adsDropped) :
              \E k \in 1..Len(qualityReport.AdsReport) :
                  /\ qualityReport.AdsReport[k].RecordID = adsDropped[i].Quality.RecordID
                  /\ ~qualityReport.AdsReport[k].IsValid
        /\ \A i \in 1..Len(crmDropped) :
              \E k \in 1..Len(qualityReport.CRMReport) :
                  /\ qualityReport.CRMReport[k].RecordID = crmDropped[i].Quality.RecordID
                  /\ ~qualityReport.CRMReport[k].IsValid

AdsFieldNames == {"date", "campaign_id", "channel", "clicks", "impressions", "cost",
                  "utm_campaign", "utm_source", "utm_medium"}

CRMFieldNames == {"opportunity_id", "contact_email", "stage", "amount", "created_at",
                  "utm_campaign", "utm_source", "utm_medium"}

\* A raw UTM source or medium that is null or empty after trimming
Absent(p) == p = <<>> \/ TrimSpace(p[1]) = ""

UTMKeyWellFormed(r, raw) ==
    /\ r.UTMKey = r.UTMCampaign \o "|" \o r.UTMSource \o "|" \o r.UTMMedium
    /\ r.UTMCampaign # "" /\ r.UTMSource # "" /\ r.UTMMedium # ""
    /\ (TrimSpace(raw.UTMCampaign) = "" => r.UTMCampaign = "unknown")
    /\ (Absent(raw.UTMSource) => r.UTMSource = "unknown")
    /\ (Absent(raw.UTMMedium) => r.UTMMedium = "unknown")

\* C7: for every normalized ads or CRM record, UTMKey is
\* UTMCampaign|UTMSource|UTMMedium, none of the three segments is empty, and
\* a segment is "unknown" whenever the raw field was null or empty after
\* trimming.
C7_UTMKey ==
    /\ \A i \in 1..Len(adsNormalized) : UTMKeyWellFormed(adsNormalized[i], adsResponse[i])
    /\ \A i \in 1..Len(crmNormalized) : UTMKeyWellFormed(crmNormalized[i], crmResponse[i])

\* An ads record with a null source and a blank medium was normalized.
C7_Witness ==
    /\ Done /\ Len(adsNormalized) = 1
    /\ adsResponse[1].UTMSource = <<>> /\ adsResponse[1].UTMMedium = <<" ">>
    /\ adsResponse[1].UTMCampaign = ""
    /\ adsNormalized[1].UTMKey = "unknown|unknown|unknown"

FullyAccounted(quality, fieldNames) ==
    /\ DOMAIN quality.FieldErrors = fieldNames
    /\ quality.ErrorCount
          = Cardinality({f \in fieldNames : ~quality.FieldErrors[f].IsValid})

\* C8: normalization is total and fully accounted: every raw record is
\* normalized, FieldErrors holds one entry for each validated field (9 for
\* an ads record, 8 for a CRM record) and ErrorCount is the number of
\* entries whose IsValid is false.
C8_TotalAndAccounted ==
    /\ Cardinality(AdsFieldNames) = 9 /\ Cardinality(CRMFieldNames) = 8
    /\ Done => (Len(adsNormalized) = Len(adsResponse) /\ Len(crmNormalized) = Len(crmResponse))
    /\ \A i \in 1..Len(adsUnique) : FullyAccounted(adsUnique[i].Quality, AdsFieldNames)
    /\ \A i \in 1..Len(crmUnique) : FullyAccounted(crmUnique[i].Quality, CRMFieldNames)

\* An ads record every field of which fails was normalized.
C8_Witness ==
    /\ Done /\ Len(adsUnique) = 1
    /\ adsUnique[1].Quality.ErrorCount = 9

\* The rule of the non-negative number validators for one field.
NonNegativeRule(raw, value, entry) ==
    /\ value >= 0
    /\ raw < 0  => (value = 0 /\ ~entry.IsValid)
    /\ raw >= 0 => (value = raw /\ entry.IsValid)

\* C9: every normalized record has non-negative clicks, impressions, cost
\* and amount: a negative raw value is a field failure and becomes 0, a
\* non-negative raw value is valid and unchanged.
C9_NonNegative ==
    /\ \A i \in 1..Len(adsNormalized) :
          LET r == adsNormalized[i]
              raw == adsResponse[i]
          IN  /\ NonNegativeRule(raw.Clicks, r.Clicks, r.Quality.FieldErrors["clicks"])
              /\ NonNegativeRule(raw.Impressions, r.Impressions,
                                 r.Quality.FieldErrors["impressions"])
              /\ NonNegativeRule(raw.Cost, r.Cost, r.Quality.FieldErrors["cost"])
    /\ \A i \in 1..Len(crmNormalized) :
          NonNegativeRule(crmResponse[i].Amount, crmNormalized[i].Amount,
                          crmNormalized[i].Quality.FieldErrors["amount"])

\* An ads record with negative clicks and zero impressions was normalized.
C9_Witness ==
    /\ Done /\ Len(adsNormalized) = 1
    /\ adsResponse[1].Clicks < 0 /\ adsNormalized[1].Clicks = 0
    /\ adsResponse[1].Impressions = 0
    /\ adsNormalized[1].Quality.FieldErrors["impressions"].IsValid

\* The three outcomes of an enumerated-field validator, empty standing for
\* the test that decides the first outcome.
EnumRule(raw, value, entry, allowed, empty) ==
    /\ empty => (value = "unknown" /\ ~entry.IsValid)
    /\ (~empty /\ ~InList(raw, allowed)) => (value = raw /\ ~entry.IsValid)
    /\ (~empty /\ InList(raw, allowed)) => (value = raw /\ entry.IsValid)

\* C10 as stated: an empty value is a failure and becomes "unknown"; a
\* non-empty value outside the fixed set is a failure returned unchanged; a
\* value of the fixed set is valid and returned unchanged.
C10_EmptyValueOnly ==
    /\ \A i \in 1..Len(adsNormalized) :
          EnumRule(adsResponse[i].Channel, adsNormalized[i].Channel,
                   adsNormalized[i].Quality.FieldErrors["channel"],
                   validChannels, adsResponse[i].Channel = "")
    /\ \A i \in 1..Len(crmNormalized) :
          EnumRule(crmResponse[i].Stage, crmNormalized[i].Stage,
                   crmNormalized[i].Quality.FieldErrors["stage"],
                   validStages, crmResponse[i].Stage = "")

\* C10 amended: a value that is empty after trimming white space is a
\* failure and becomes "unknown"; any other value outside the fixed set is a
\* failure returned unchanged; a value of the fixed set is valid and
\* returned unchanged.
C10_EnumOutcomes ==
    /\ \A i \in 1..Len(adsNormalized) :
          EnumRule(adsResponse[i].Channel, adsNormalized[i].Channel,
                   adsNormalized[i].Quality.FieldErrors["channel"],
                   validChannels, TrimSpace(adsResponse[i].Channel) = "")
    /\ \A i \in 1..Len(crmNormalized) :
          EnumRule(crmResponse[i].Stage, crmNormalized[i].Stage,
                   crmNormalized[i].Quality.FieldErrors["stage"],
                   validStages, TrimSpace(crmResponse[i].Stage) = "")

\* A channel outside the fixed set was kept as it came.
C10_Witness ==
    /\ Done /\ Len(adsNormalized) = 1
    /\ adsResponse[1].Channel = "Google_Ads"
    /\ adsNormalized[1].Channel = "Google_Ads"
    /\ ~adsNormalized[1].Quality.FieldErrors["channel"].IsValid

\* The rule of the email validator for one record, blank standing for the
\* test that tells a missing email from a malformed one.
EmailRule(raw, value, entry, blank) ==
    /\ value = raw
    /\ entry.OriginalValue = StrVal(raw)
    /\ blank => ~entry.IsValid
    /\ (~blank /\ ~emailRegexMatch(raw)) =>
           (~entry.IsValid /\ entry.Description = "Invalid email format")
    /\ (~blank /\ emailRegexMatch(raw)) => entry.IsValid

\* C11 as stated: the normalized ContactEmail equals the raw value, an empty
\* or malformed email is a field failure, described as "Invalid email format"
\* when it is malformed, and the original value is kept.
C11_EmailAsStated ==
    \A i \in 1..Len(crmNormalized) :
        EmailRule(crmResponse[i].ContactEmail, crmNormalized[i].ContactEmail,
                  crmNormalized[i].Quality.FieldErrors["contact_email"],
                  crmResponse[i].ContactEmail = "")

\* C11 amended: the normalized ContactEmail equals the raw value and the
\* original value is kept; an email that is empty after trimming white space
\* is a field failure; any other email that does not match the pattern is a
\* field failure described as "Invalid email format"; an email that matches
\* is valid.
C11_EmailUnchanged ==
    \A i \in 1..Len(crmNormalized) :
        EmailRule(crmResponse[i].ContactEmail, crmNormalized[i].ContactEmail,
                  crmNormalized[i].Quality.FieldErrors["contact_email"],
                  TrimSpace(crmResponse[i].ContactEmail) = "")

\* A malformed email was normalized: it failed and was kept as it came.
C11_Witness ==
    /\ Done /\ Len(crmNormalized) = 1
    /\ crmResponse[1].ContactEmail = "not-an-email"
    /\ crmNormalized[1].ContactEmail = "not-an-email"
    /\ crmNormalized[1].Quality.FieldErrors["contact_email"].Description
          = "Invalid email format"


\* The rows of the last metrics request that was answered
MetricsDone == served.op \in {"channel", "funnel"} /\ served.status = 200

ChannelDone == served.op = "channel" /\ served.status = 200

FunnelDone == served.op = "funnel" /\ served.status = 200

ExportDone == served.op = "export" /\ served.status \in {200, 500}

RowsServed == IF MetricsDone THEN {served.metrics[i] : i \in 1..Len(served.metrics)} ELSE {}

\* C12: safeDivide returns 0 for every zero denominator and for a zero
\* numerator over a positive denominator, so every derived ratio of every
\* channel or funnel row is 0 whenever its denominator (clicks, leads, raw
\* opportunities plus closed_won, cost) is 0; a cost of 50 with no matched
\* lead gives CPA 0, and a revenue of 200 over a cost of 50 gives ROAS 4.
C12_SafeDivide ==
    /\ \A n \in 0..MaxOperand : safeDivide(n, 0) = 0
    /\ \A d \in 1..MaxOperand : safeDivide(0, d) = 0
    /\ \A row \in RowsServed :
          /\ row.Clicks = 0 => row.CPC = 0
          /\ row.Leads = 0 => (row.CPA = 0 /\ row.CVRLeadToOpp = 0)
          /\ row.Opportunities = 0 => row.CVROppToWon = 0
          /\ row.Cost = 0 => row.ROAS = 0
          /\ (row.Cost = 50 /\ row.Leads = 0) => row.CPA = 0
          /\ (row.Revenue = 200 /\ row.Cost = 50) => row.ROAS = 4 * 1000

\* A channel row with a cost of 50, no lead and a revenue of 200 was served.
C12_Witness ==
    /\ ChannelDone
    /\ \E i \in 1..Len(served.metrics) :
          /\ served.metrics[i].Cost = 50 /\ served.metrics[i].Leads = 0
          /\ served.metrics[i].Revenue = 200
          /\ served.metrics[i].CPA = 0 /\ served.metrics[i].ROAS = 4000

\* The indices of the ads records read by the last channel request that
\* pass its channel filter and fall in the (date, channel) group of row
InChannelGroup(row) ==
    {i \in 1..Len(served.adsRecords) :
        /\ served.filter = "" \/ served.adsRecords[i].Channel = served.filter
        /\ FormatDate(served.adsRecords[i].Date) = row.Date
        /\ served.adsRecords[i].Channel = row.Channel}

\* The indices of the CRM records created on the day of the group that carry
\* the utm_key of one of its ads records
CRMOfChannelGroup(row) ==
    {j \in 1..Len(served.crmRecords) :
        \E i \in InChannelGroup(row) :
            /\ DayOf(served.crmRecords[j].CreatedAt) = DayOf(served.adsRecords[i].Date)
            /\ served.crmRecords[j].UTMKey = served.adsRecords[i].UTMKey}

\* The number of CRM records a row has counted, under one stage or another
Counted(row) == row.Leads + row.Opportunities

StagedIn(crm, idx) == {j \in idx : InList(crm[j].Stage, validStages)}

\* C13: CalculateChannelMetrics groups the ads records (those of the given
\* channel when a filter is given) by (date, channel), one row per group, and
\* counts a CRM record in a group exactly when the calendar day of its
\* created_at is the group's date and its utm_key is the utm_key of at least
\* one ads record of the group.
C13_ChannelGrouping ==
    ChannelDone =>
        /\ \A i \in 1..Len(served.adsRecords) :
              (served.filter = "" \/ served.adsRecords[i].Channel = served.filter)
              => \E k \in 1..Len(served.metrics) : i \in InChannelGroup(served.metrics[k])
        /\ \A k, l \in 1..Len(served.metrics) :
              (/\ served.metrics[k].Date = served.metrics[l].Date
               /\ served.metrics[k].Channel = served.metrics[l].Channel) => k = l
        /\ \A k \in 1..Len(served.metrics) :
              /\ InChannelGroup(served.metrics[k]) # {}
              /\ served.metrics[k].Clicks =
                    SumSeq([i \in 1..Len(served.adsRecords) |->
                               IF i \in InChannelGroup(served.metrics[k])
                               THEN served.adsRecords[i].Clicks ELSE 0])
              /\ served.metrics[k].Cost =
                    SumSeq([i \in 1..Len(served.adsRecords) |->
                               IF i \in InChannelGroup(served.metrics[k])
                               THEN served.adsRecords[i].Cost ELSE 0])
              /\ Counted(served.metrics[k]) =
                    Cardinality(StagedIn(served.crmRecords,
                                         CRMOfChannelGroup(served.metrics[k])))

\* A request for one channel was served a row that counts a CRM record of its
\* day and leaves out one with the same utm_key created on another day.
C13_Witness ==
    /\ ChannelDone
    /\ served.filter = "google_ads"
    /\ \E k \in 1..Len(served.metrics) :
          /\ Counted(served.metrics[k]) = 1
          /\ \E j \in 1..Len(served.crmRecords), i \in InChannelGroup(served.metrics[k]) :
                /\ served.crmRecords[j].UTMKey = served.adsRecords[i].UTMKey
                /\ j \notin CRMOfChannelGroup(served.metrics[k])

\* The indices of the CRM records that the row of the last metrics request
\* matches: by day and utm_key for a channel row, by utm_key for a funnel row
MatchedBy(row) ==
    IF served.op = "channel" THEN CRMOfChannelGroup(row)
    ELSE {j \in 1..Len(served.crmRecords) : served.crmRecords[j].UTMKey = row.UTMKey}

OfStage(idx, stages) == {j \in idx : served.crmRecords[j].Stage \in stages}

\* C14: in every channel or funnel row, over the CRM records matched to it,
\* Leads is the number with stage lead, ClosedWon the number with stage
\* closed_won, Revenue the sum of the amounts of the closed_won ones only, and
\* Opportunities the number with stage opportunity, closed_lost or
\* closed_won; a closed_lost record raises the opportunity tally by 1 and
\* leaves Leads unchanged.
C14_StageTallies ==
    MetricsDone =>
        /\ \A k \in 1..Len(served.metrics) :
              /\ served.metrics[k].Leads =
                    Cardinality(OfStage(MatchedBy(served.metrics[k]), {"lead"}))
              /\ served.metrics[k].ClosedWon =
                    Cardinality(OfStage(MatchedBy(served.metrics[k]), {"closed_won"}))
              /\ served.metrics[k].Opportunities =
                    Cardinality(OfStage(MatchedBy(served.metrics[k]),
                                        {"opportunity", "closed_lost", "closed_won"}))
              /\ served.metrics[k].Revenue =
                    SumSeq([j \in 1..Len(served.crmRecords) |->
                               IF j \in OfStage(MatchedBy(served.metrics[k]), {"closed_won"})
                               THEN served.crmRecords[j].Amount ELSE 0])
        /\ \A j \in 1..Len(served.crmRecords) :
              LET lost == [served.crmRecords[j] EXCEPT !.Stage = "closed_lost"]
              IN  /\ opportunities(Append(served.crmRecords, lost))
                        = opportunities(served.crmRecords) + 1
                  /\ leads(Append(served.crmRecords, lost)) = leads(served.crmRecords)

\* A funnel row matched a won and a lost opportunity and no lead.
C14_Witness ==
    /\ FunnelDone
    /\ \E k \in 1..Len(served.metrics) :
          /\ OfStage(MatchedBy(served.metrics[k]), {"closed_lost"}) # {}
          /\ served.metrics[k].Leads = 0
          /\ served.metrics[k].Opportunities = 2
          /\ served.metrics[k].ClosedWon = 1
          /\ served.metrics[k].Revenue = 200

\* The indices of the ads records read by the last funnel request that pass
\* its utm_campaign filter
FunnelPassing ==
    {i \in 1..Len(served.adsRecords) :
        served.filter = "" \/ served.adsRecords[i].UTMCampaign = served.filter}

\* C15: CalculateFunnelMetrics groups the ads records (those of the given
\* utm_campaign when a filter is given) by utm_key alone, one row per
\* distinct utm_key, and counts a CRM record in a row exactly when its utm_key
\* is the row's, whatever its created_at; a CRM record is counted in at most
\* one funnel row.
C15_FunnelGrouping ==
    FunnelDone =>
        /\ {served.metrics[k].UTMKey : k \in 1..Len(served.metrics)}
              = {served.adsRecords[i].UTMKey : i \in FunnelPassing}
        /\ \A k, l \in 1..Len(served.metrics) :
              served.metrics[k].UTMKey = served.metrics[l].UTMKey => k = l
        /\ \A k \in 1..Len(served.metrics) :
              /\ served.metrics[k].Clicks =
                    SumSeq([i \in 1..Len(served.adsRecords) |->
                               IF /\ i \in FunnelPassing
                                  /\ served.adsRecords[i].UTMKey = served.metrics[k].UTMKey
                               THEN served.adsRecords[i].Clicks ELSE 0])
              /\ Counted(served.metrics[k]) =
                    Cardinality({j \in 1..Len(served.crmRecords) :
                                    /\ InList(served.crmRecords[j].Stage, validStages)
                                    /\ served.crmRecords[j].UTMKey = served.metrics[k].UTMKey})
        /\ \A j \in 1..Len(served.crmRecords) :
              Cardinality({k \in 1..Len(served.metrics) :
                              served.crmRecords[j].UTMKey = served.metrics[k].UTMKey}) <= 1

\* A request for one campaign was served a single row that groups ads records
\* of two channels and counts a CRM record created on another day.
C15_Witness ==
    /\ FunnelDone
    /\ served.filter = "summer"
    /\ Len(served.metrics) = 1
    /\ Len(served.adsRecords) = 2
    /\ served.adsRecords[1].Channel # served.adsRecords[2].Channel
    /\ served.metrics[1].Clicks = served.adsRecords[1].Clicks + served.adsRecords[2].Clicks
    /\ Counted(served.metrics[1]) = 1
    /\ \E j \in 1..Len(served.crmRecords) :
          /\ served.crmRecords[j].UTMKey = served.metrics[1].UTMKey
          /\ DayOf(served.crmRecords[j].CreatedAt) # served.adsRecords[1].Date

\* Two float64 values that follow one another
Succ(x) == Normal(Increment(x.m), x.e)

Adjacent(x, y) == x # FloatZero /\ y # FloatZero /\ (Succ(x) = y \/ Succ(y) = x)

ValidIn(records) == Cardinality({i \in 1..Len(records) : records[i].Quality.IsValid})

\* The score of valid records out of total is the float64 quotient
\* valid * 100 / total, and 0 for no record.
ScoreAsStated(score, valid, total) ==
    score = IF total > 0 THEN FDiv(valid * 100, total) ELSE FloatZero

Hundred == FloatOfInt(100)

\* The score is 0 for no record and for no valid record, 100 when every
\* record is valid, and otherwise the float64 quotient valid * 100 / total or
\* the float64 value next to it.
ScoreRule(score, valid, total) ==
    /\ (total = 0 \/ valid = 0) => score = FloatZero
    /\ (total > 0 /\ valid = total) => score = Hundred
    /\ total > 0 => \/ score = FDiv(valid * 100, total)
                    \/ Adjacent(score, FDiv(valid * 100, total))

\* C16 as stated: GenerateQualityReport sets each batch score to
\* valid_count * 100 / total_count (0 for an empty batch) and the overall
\* score to (valid_ads + valid_crm) * 100 / (total_ads + total_crm) (0 when
\* both batches are empty).
C16_ScoresAsStated ==
    Done =>
        /\ ScoreAsStated(qualityReport.Summary.AdsQualityScore,
                         ValidIn(storeAds), Len(storeAds))
        /\ ScoreAsStated(qualityReport.Summary.CRMQualityScore,
                         ValidIn(storeCRM), Len(storeCRM))
        /\ ScoreAsStated(qualityReport.Summary.OverallQualityScore,
                         ValidIn(storeAds) + ValidIn(storeCRM),
                         Len(storeAds) + Len(storeCRM))

\* The rule on the scores of every batch of up to MaxScored records, and the
\* score of 10 records of which 2 are invalid
ScoreGrid ==
    /\ \A total \in 0..MaxScored : \A valid \in 0..total :
          ScoreRule(Score(valid, total), valid, total)
    /\ Score(10 - 2, 10) = FloatOfInt(80)

\* C16: GenerateQualityReport sets each batch score to
\* float64(valid_count) / float64(total_count) * 100 (0 for an empty batch)
\* and the overall score likewise from the two sums: the value is
\* valid_count * 100 / total_count as a float64 or the float64 next to it,
\* exactly 0 and 100 at the two ends; 10 ads records of which 2 are invalid
\* give exactly 80.
C16_Scores ==
    /\ Done =>
          /\ ScoreRule(qualityReport.Summary.AdsQualityScore,
                       ValidIn(storeAds), Len(storeAds))
          /\ ScoreRule(qualityReport.Summary.CRMQualityScore,
                       ValidIn(storeCRM), Len(storeCRM))
          /\ ScoreRule(qualityReport.Summary.OverallQualityScore,
                       ValidIn(storeAds) + ValidIn(storeCRM),
                       Len(storeAds) + Len(storeCRM))
    /\ ScoreGrid

\* A run stored three ads records of which two are valid: the score is the
\* float64 below the quotient 200 / 3.
C16_Witness ==
    /\ Done
    /\ Len(storeAds) = 3 /\ ValidIn(storeAds) = 2
    /\ qualityReport.Summary.AdsQualityScore # FDiv(200, 3)
    /\ Succ(qualityReport.Summary.AdsQualityScore) = FDiv(200, 3)

\* The invalid field entries of the two batches that carry description d,
\* each named by its batch, the index of its record and its field
InvalidEntries(adsRecords, crmRecords, d) ==
    UNION {{<<"ads", i, f>> :
               f \in {g \in DOMAIN adsRecords[i].Quality.FieldErrors :
                         /\ ~adsRecords[i].Quality.FieldErrors[g].IsValid
                         /\ adsRecords[i].Quality.FieldErrors[g].Description = d}} :
           i \in 1..Len(adsRecords)}
    \cup UNION {{<<"crm", i, f>> :
                    f \in {g \in DOMAIN crmRecords[i].Quality.FieldErrors :
                              /\ ~crmRecords[i].Quality.FieldErrors[g].IsValid
                              /\ crmRecords[i].Quality.FieldErrors[g].Description = d}} :
                i \in 1..Len(crmRecords)}

\* Every description of a field entry of the two batches, valid or not
DescriptionsOf(adsRecords, crmRecords) ==
    UNION {{adsRecords[i].Quality.FieldErrors[f].Description :
               f \in DOMAIN adsRecords[i].Quality.FieldErrors} : i \in 1..Len(adsRecords)}
    \cup UNION {{crmRecords[i].Quality.FieldErrors[f].Description :
                    f \in DOMAIN crmRecords[i].Quality.FieldErrors} : i \in 1..Len(crmRecords)}

Annotated(d, n) == d \o " (occurs " \o ToString(n) \o " times)"

CommonIssuesRule(issues, adsRecords, crmRecords) ==
    issues = {Annotated(d, Cardinality(InvalidEntries(adsRecords, crmRecords, d))) :
                 d \in {e \in DescriptionsOf(adsRecords, crmRecords) :
                           Cardinality(InvalidEntries(adsRecords, crmRecords, e)) >= 2}}

QualityDone == served.op = "quality" /\ served.status = 200

\* C17: the common-issues list of a quality report holds one entry, annotated
\* with the count, for exactly the descriptions that occur on two or more
\* invalid FieldQuality entries, summed across both batches; valid entries
\* are not counted and a description that occurs once is not listed.
C17_CommonIssues ==
    /\ Done => CommonIssuesRule(qualityReport.Summary.CommonIssues, storeAds, storeCRM)
    /\ QualityDone => CommonIssuesRule(served.qualityReport.Summary.CommonIssues,
                                       served.adsRecords, served.crmRecords)

\* A report over an ads record and a CRM record that each miss the
\* utm_medium lists the description they share with the count 2, and no
\* other.
C17_Witness ==
    /\ QualityDone
    /\ served.qualityReport.Summary.CommonIssues
          = {"Missing - UTM Medium is null or empty, using 'unknown' (occurs 2 times)"}
    /\ \E i \in 1..Len(served.adsRecords) :
          ~served.adsRecords[i].Quality.FieldErrors["utm_medium"].IsValid
    /\ \E i \in 1..Len(served.crmRecords) :
          ~served.crmRecords[i].Quality.FieldErrors["utm_medium"].IsValid

ExportFields == {"Date", "Channel", "Clicks", "Impressions", "Cost", "Leads", "Opportunities",
                 "ClosedWon", "Revenue", "CPC", "CPA", "CVRLeadToOpp", "CVROppToWon", "ROAS"}

\* C18: ConvertChannelMetricsToExport yields one export row per
\* channel-metrics row, in the same order; campaign_id is always "aggregated"
\* and every other field equals the field of the metrics row.
C18_ExportRows ==
    ExportDone =>
        /\ Len(served.exportRecords) = Len(served.channelMetrics)
        /\ \A k \in 1..Len(served.exportRecords) :
              /\ served.exportRecords[k].CampaignID = "aggregated"
              /\ DOMAIN served.exportRecords[k] = ExportFields \cup {"CampaignID"}
              /\ \A f \in ExportFields :
                    served.exportRecords[k][f] = served.channelMetrics[k][f]

\* An export of a day with two channels: two rows that differ, in the order
\* of the metrics rows.
C18_Witness ==
    /\ ExportDone
    /\ Len(served.channelMetrics) = 2
    /\ served.channelMetrics[1].Channel # served.channelMetrics[2].Channel
    /\ served.exportRecords[1].Channel = served.channelMetrics[1].Channel
    /\ served.exportRecords[2].Channel = served.channelMetrics[2].Channel
    /\ served.exportRecords[1].CampaignID = "aggregated"

\* C20: an ingestion run either stores both normalized batches or fails as a
\* whole: a run whose since parameter is malformed, or whose ads or CRM fetch
\* fails, returns an error and leaves the ads batch, the CRM batch and the
\* last-ingest time of the store as they were; a run that succeeds stores the
\* two batches it reports.
C20_StoresBothOrFails ==
    [][/\ response'.status \in {200, 400, 500}
       /\ (since' # "" /\ ~ParseDate(since', "-").ok) => response'.status = 400
       /\ response'.status \in {400, 500} =>
             /\ response'.error # ""
             /\ storeAds' = storeAds /\ storeCRM' = storeCRM /\ lastIngest' = lastIngest
       /\ response'.status = 200 =>
             /\ response'.error = ""
             /\ storeAds' = SinceFilterAds(adsUnique', QueryTime(since'))
             /\ storeCRM' = SinceFilterCRM(crmUnique', QueryTime(since'))
             /\ lastIngest' >= lastIngest /\ lastIngest' > 0]_vars

\* A run failed on a fetch after an earlier run had stored records: the store
\* still holds them and the time of that run.
C20_Witness ==
    /\ response.status = 500
    /\ response.error \in {"Failed to fetch ads data", "Failed to fetch CRM data"}
    /\ storeAds # <<>> /\ storeCRM # <<>>
    /\ lastIngest > 0

\* No run stands between its two calls of the store.
NoRunStoring == \A r \in 1..MaxRuns : inflight.run[r].pc # "adsStored"

\* C19: stored batches are superseded wholesale: under any interleaving of
\* ingestion runs with each other and with requests that read the store, the
\* ads batch and the CRM batch the store holds, and the pair a request has
\* read from it, come from the same ingestion run.
C19_SameRun ==
    /\ NoRunStoring => inflight.adsRun = inflight.crmRun
    /\ inflight.reader.pc = "crmRead" => inflight.reader.adsRun = inflight.reader.crmRun


\* C21: failed requests are retried with exponential backoff: the wait
\* before each retry is the wait before the previous one times one constant
\* factor, so that three successive waits are in geometric progression.
C21_ConstantFactor ==
    \A i \in 2..(Len(client.slept) - 1) :
        client.slept[i] * client.slept[i] = client.slept[i - 1] * client.slept[i + 1]

C23_ClicksWithinImpressions ==
    \A i \in 1..Len(adsNormalized) :
        adsResponse[i].Clicks > adsResponse[i].Impressions => ~adsNormalized[i].Quality.IsValid

\* The rows of the last channel request that match the CRM record at j
MatchingRows(j) ==
    {k \in 1..Len(served.metrics) : j \in CRMOfChannelGroup(served.metrics[k])}

\* The sum over the CRM records of a stage of weight times the number of
\* rows that match the record
TimesMatched(stage, Weight(_)) ==
    SumSeq([j \in 1..Len(served.crmRecords) |->
               IF served.crmRecords[j].Stage = stage
               THEN Weight(served.crmRecords[j]) * Cardinality(MatchingRows(j)) ELSE 0])

One(record) == 1

AmountOf(record) == record.Amount

\* C24: in CalculateChannelMetrics a CRM record is counted in every (date,
\* channel) row that matches it: each row that matches a lead has it among
\* its Leads, each that matches a won opportunity has it in ClosedWon and in
\* Revenue, and over all rows Leads, ClosedWon and Revenue add up to one
\* count, or one amount, per record and row that matches it.
C24_CountedInEveryRow ==
    ChannelDone =>
        /\ \A j \in 1..Len(served.crmRecords) : \A k \in MatchingRows(j) :
              /\ served.crmRecords[j].Stage = "lead" => served.metrics[k].Leads >= 1
              /\ served.crmRecords[j].Stage = "closed_won" =>
                    /\ served.metrics[k].ClosedWon >= 1
                    /\ served.metrics[k].Revenue >= served.crmRecords[j].Amount
        /\ SumSeq([k \in 1..Len(served.metrics) |-> served.metrics[k].Leads])
              = TimesMatched("lead", One)
        /\ SumSeq([k \in 1..Len(served.metrics) |-> served.metrics[k].ClosedWon])
              = TimesMatched("closed_won", One)
        /\ SumSeq([k \in 1..Len(served.metrics) |-> served.metrics[k].Revenue])
              = TimesMatched("closed_won", AmountOf)

\* Two rows of one day and two channels share the utm_key of a CRM record of
\* that day, and count it both: the rows tell more leads, or more revenue,
\* than the CRM batch holds.
C24_Witness ==
    /\ ChannelDone
    /\ \E j \in 1..Len(served.crmRecords) : \E k, l \in MatchingRows(j) :
          /\ served.metrics[k].Channel # served.metrics[l].Channel
          /\ served.metrics[k].Date = served.metrics[l].Date
    /\ \/ SumSeq([k \in 1..Len(served.metrics) |-> served.metrics[k].Leads])
             > Cardinality(OfStage(1..Len(served.crmRecords), {"lead"}))
       \/ SumSeq([k \in 1..Len(served.metrics) |-> served.metrics[k].Revenue])
             > SumSeq([j \in 1..Len(served.crmRecords) |-> served.crmRecords[j].Amount])

\* The ads records of the last channel request that pass its filter
PassingAds ==
    {i \in 1..Len(served.adsRecords) :
        served.filter = "" \/ served.adsRecords[i].Channel = served.filter}

\* C25: CalculateChannelMetrics returns exactly one row per distinct (date,
\* channel) pair among the ads records that pass the channel filter, and
\* the Clicks and the Impressions of all rows add up to those of these ads
\* records.
C25_AdsCountsConserved ==
    ChannelDone =>
        /\ {<<served.metrics[k].Date, served.metrics[k].Channel>> :
               k \in 1..Len(served.metrics)}
              = {<<FormatDate(served.adsRecords[i].Date), served.adsRecords[i].Channel>> :
                    i \in PassingAds}
        /\ Len(served.metrics)
              = Cardinality({<<served.adsRecords[i].Date, served.adsRecords[i].Channel>> :
                                i \in PassingAds})
        /\ SumSeq([k \in 1..Len(served.metrics) |-> served.metrics[k].Clicks])
              = SumSeq([i \in 1..Len(served.adsRecords) |->
                           IF i \in PassingAds THEN served.adsRecords[i].Clicks ELSE 0])
        /\ SumSeq([k \in 1..Len(served.metrics) |-> served.metrics[k].Impressions])
              = SumSeq([i \in 1..Len(served.adsRecords) |->
                           IF i \in PassingAds THEN served.adsRecords[i].Impressions ELSE 0])

\* Three ads records, two of them of one day and channel, were served as
\* two rows; a record of another channel was left out by the filter of
\* another request.
C25_Witness ==
    /\ ChannelDone
    /\ \/ /\ Len(served.adsRecords) = 3 /\ Len(served.metrics) = 2
          /\ Cardinality(PassingAds) = 3
       \/ /\ Len(served.adsRecords) = 3 /\ Len(served.metrics) = 1
          /\ Cardinality(PassingAds) = 2
          /\ SumSeq([k \in 1..Len(served.metrics) |-> served.metrics[k].Clicks]) > 0

\* The opportunity came without an id.
BlankID(j) == TrimSpace(crmResponse[j].OpportunityID) = ""

\* The ads record came without a date, or with one of neither layout.
Undated(i) ==
    \/ TrimSpace(adsResponse[i].Date) = ""
    \/ ~ParseDate(adsResponse[i].Date, "-").ok /\ ~ParseDate(adsResponse[i].Date, "/").ok

AdsID(i) == "ads_" \o Itoa(i - 1)

CRMID(j) == "crm_" \o Itoa(j - 1)

\* C26: the deduplicator compares the normalized values, fallbacks included.
\* Every opportunity that comes without an id is normalized to the id
\* "unknown", and all of them but the first are dropped; ads records of one
\* campaign_id and channel whose dates are empty or do not parse all get the
\* zero date, and all of them but the first are dropped, whatever their raw
\* values.
C26_FallbacksCollide ==
    Done =>
        /\ \A j \in 1..Len(crmResponse) : BlankID(j) =>
              /\ crmNormalized[j].OpportunityID = "unknown"
              /\ (\E k \in 1..(j - 1) : BlankID(k)) => CRMID(j) \notin RecordIDs(crmUnique)
              /\ (\A k \in 1..(j - 1) : ~BlankID(k) /\ crmResponse[k].OpportunityID # "unknown")
                    => CRMID(j) \in RecordIDs(crmUnique)
        /\ \A j \in 1..Len(adsResponse) : Undated(j) =>
              /\ IsZero(adsNormalized[j].Date)
              /\ (\E i \in 1..(j - 1) :
                     /\ Undated(i)
                     /\ adsResponse[i].CampaignID = adsResponse[j].CampaignID
                     /\ adsResponse[i].Channel = adsResponse[j].Channel)
                    => AdsID(j) \notin RecordIDs(adsUnique)

\* A run kept one of two opportunities that came with the ids "" and " ",
\* and one of two ads records that came with an empty date and with a date
\* that does not parse.
C26_Witness ==
    /\ Done
    /\ Len(crmResponse) = 2 /\ BlankID(1) /\ BlankID(2)
    /\ crmResponse[1].OpportunityID # crmResponse[2].OpportunityID
    /\ Len(crmUnique) = 1
    /\ Len(adsResponse) = 2 /\ Undated(1) /\ Undated(2)
    /\ adsResponse[1].Date # adsResponse[2].Date
    /\ Len(adsUnique) = 1

InGetLoop == client.pc \in {"adsLoop", "crmLoop"}

GetReturned == client.pc \in {"adsReturned", "crmReturned"}

\* What retryRequest makes of a reply: a failure to retry after, a client
\* error, or success
GetFailed(outcome) ==
    \/ outcome = TransportError
    \/ outcome.status >= 500
    \/ outcome.status < 400 /\ outcome.body \in {"unreadable", "undecodable"}

GetRejected(outcome) ==
    outcome # TransportError /\ outcome.status >= 400 /\ outcome.status < 500

GetSucceeded(outcome) ==
    outcome # TransportError /\ outcome.status < 400 /\ outcome.body = "ok"

\* The error retryRequest keeps for a failure
FailureOf(outcome) ==
    IF outcome = TransportError THEN "transport error"
    ELSE IF outcome.status >= 500 THEN "server error: " \o ToString(outcome.status)
    ELSE IF outcome.body = "unreadable" THEN "unexpected EOF"
    ELSE "unexpected end of JSON input"

AllFailedBefore(n) == \A i \in 1..(n - 1) : GetFailed(client.sent[i])

\* retryRequest in every state of a call, and on its return
RetryRule ==
    /\ InGetLoop \/ GetReturned =>
          /\ Len(client.sent) <= client.retryAttempts \/ Len(client.sent) = 0
          /\ AllFailedBefore(Len(client.sent))
    /\ InGetLoop => Len(client.sent) = client.attempt /\ AllFailedBefore(client.attempt + 1)
    /\ GetReturned /\ Len(client.sent) > 0 /\ GetSucceeded(client.sent[Len(client.sent)]) =>
          client.err = NilError
    /\ GetReturned /\ Len(client.sent) > 0 /\ GetRejected(client.sent[Len(client.sent)]) =>
          client.err = <<"client error: " \o ToString(client.sent[Len(client.sent)].status)>>
    /\ GetReturned /\ Len(client.sent) > 0 /\ GetFailed(client.sent[Len(client.sent)]) =>
          /\ Len(client.sent) = client.retryAttempts
          /\ Len(client.err) = 2
          /\ client.err[2] = FailureOf(client.sent[Len(client.sent)])
          /\ client.err[1] = "all retry attempts failed, last error: " \o client.err[2]

\* C27: retryRequest ends, after at most retryAttempts GET requests: with
\* success at the first reply below 400 whose body decodes, with a client
\* error at the first 4xx reply, and, having sent another request after
\* every transport error, 5xx reply and body that is not read or decoded,
\* with an error that carries the last failure once retryAttempts requests
\* have failed.
C27_RetryTerminates ==
    /\ []RetryRule
    /\ InGetLoop ~> GetReturned

\* The fetch of the CRM records gave up after three requests that failed,
\* the last of them on the body, and the backoffs of 1 s and 4 s.
C27_Witness ==
    /\ client.pc = "crmReturned"
    /\ client.retryAttempts = 3
    /\ Len(client.sent) = 3 /\ client.slept = <<1, 4>>
    /\ client.sent[3] = Reply(200, "undecodable")
    /\ Len(client.err) = 2

\* C28: when the retry count is 0 or negative, as Load leaves it at 0 when
\* RETRY_ATTEMPTS is not a number, retryRequest and retryPostRequest send
\* no request and return an error that wraps a nil last error: no ingestion
\* run succeeds and stores anything, and no export delivers a record.
C28_NoAttemptsAllFail ==
    /\ \A retryAttempts \in RetrySamples :
          StrconvAtoi(getEnv(retryAttempts, "3")).err => Load(retryAttempts).RetryAttempts = 0
    /\ client.retryAttempts <= 0 =>
          /\ client.sent = <<>> /\ client.slept = <<>>
          /\ client.posted = <<>> /\ client.accepted = <<>>
          /\ GetReturned =>
                client.err = <<"all retry attempts failed, last error: %!w(<nil>)">>
          /\ client.pc = "adsReturned" => FetchOf(client) = "ads_error"
          /\ client.pc = "postReturned" =>
                client.err = <<"export failed after retries: %!w(<nil>)">>
          /\ client.pc = "exportReturned" => client.err # NilError
          /\ response.status # 200
          /\ storeAds = <<>> /\ storeCRM = <<>> /\ lastIngest = 0

\* With a retry count of 0 an ingestion run has answered 500 for the ads
\* fetch, and an export of two records has returned its error.
C28_Witness ==
    /\ client.retryAttempts = 0
    /\ response.status = 500 /\ response.error = "Failed to fetch ads data"
    /\ client.pc = "exportReturned"
    /\ Len(client.records) = 2
    /\ Len(client.err) = 2

InExport == client.pc \in {"postLoop", "postReturned", "exportReturned"}

\* C29: ExportDailyData posts the records one at a time in the order of the
\* list and stops at the first record whose POST fails, returning an error:
\* the sink has then taken exactly the records before that one, which stay
\* delivered, and no later record was posted; without an error it has taken
\* them all; for an empty list the error comes without any POST.
C29_ExportStopsAtFailure ==
    InExport =>
        /\ \A i \in 1..Len(client.posted) :
              /\ client.posted[i] \in 1..client.posting
              /\ i = 1 => client.posted[i] = 1
              /\ i > 1 => client.posted[i] - client.posted[i - 1] \in {0, 1}
        /\ \A n \in 1..client.posting :
              \/ \E i \in 1..Len(client.posted) : client.posted[i] = n
              \/ n = client.posting /\ client.pc = "postLoop"
              \/ client.retryAttempts <= 0
        /\ client.accepted = SubSeq(client.records, 1, Len(client.accepted))
        /\ Len(client.accepted) \in {client.posting - 1, client.posting}
        /\ client.pc = "postLoop" => Len(client.accepted) = client.posting - 1
        /\ client.pc = "exportReturned" =>
              /\ client.err = NilError => client.accepted = client.records
              /\ client.err # NilError /\ Len(client.records) > 0 =>
                    /\ client.accepted = SubSeq(client.records, 1, client.posting - 1)
                    /\ client.posting <= Len(client.records)
                    /\ SubSeq(client.err[1], 1, 25) = "failed to export record: "
              /\ Len(client.records) = 0 =>
                    client.err = <<"no records to export">> /\ client.posted = <<>>

\* An export of two records returned an error for the second, posted three
\* times, after the sink had taken the first.
C29_Witness ==
    /\ client.pc = "exportReturned"
    /\ Len(client.records) = 2
    /\ client.err # NilError
    /\ client.accepted = SubSeq(client.records, 1, 1)
    /\ client.posted = <<1, 2, 2, 2>>
====
